---- MODULE Spec2Model ----
(***************************************************************************)
(* A model of tsickle's TypeTranslator (type_translator.ts): the          *)
(* translation of TypeScript type objects to Closure type strings, the    *)
(* naming of symbols through the alias scope, and the translator's state  *)
(* (seenAnonymousTypes, symbolsToAliasedNames, isForExterns,              *)
(* pathBlackList).                                                        *)
(*                                                                         *)
(* A JavaScript string is a sequence of one-character strings, so that    *)
(* concatenation, equality, prefix and substring tests are those of the   *)
(* code.  Type, symbol, signature and source-file objects are named by    *)
(* identifiers; identity of objects is equality of identifiers.           *)
(***************************************************************************)
EXTENDS Naturals, Sequences, FiniteSets, TLC

(***************************************************************************)
(* String literals of the source.                                          *)
(***************************************************************************)
STR_Q == <<"?">>
STR_Star == <<"*">>
STR_string == <<"s", "t", "r", "i", "n", "g">>
STR_number == <<"n", "u", "m", "b", "e", "r">>
STR_boolean == <<"b", "o", "o", "l", "e", "a", "n">>
STR_symbol == <<"s", "y", "m", "b", "o", "l">>
STR_void == <<"v", "o", "i", "d">>
STR_undefined == <<"u", "n", "d", "e", "f", "i", "n", "e", "d">>
STR_bigintPlaceholder == <<"b", "i", "g", "i", "n", "t", "P", "l", "a", "c", "e", "h", "o", "l", "d", "e", "r">>
STR_null == <<"n", "u", "l", "l">>
STR_BangObject == <<"!", "O", "b", "j", "e", "c", "t">>
STR_Bang == <<"!">>
STR_BangArrayQ == <<"!", "A", "r", "r", "a", "y", "<", "?", ">">>
STR_Lt == <<"<">>
STR_Gt == <<">">>
STR_CommaSpace == <<",", " ">>
STR_LParen == <<"(">>
STR_RParen == <<")">>
STR_Bar == <<"|">>
STR_functionNew == <<"f", "u", "n", "c", "t", "i", "o", "n", "(", "n", "e", "w", ":", " ", "(">>
STR_RParenColonQ == <<")", ":", " ", "?">>
STR_call == <<"_", "_", "c", "a", "l", "l">>
STR_index == <<"_", "_", "i", "n", "d", "e", "x">>
STR_ColonSpace == <<":", " ">>
STR_BangObjectQQ == <<"!", "O", "b", "j", "e", "c", "t", "<", "?", ",", "?", ">">>
STR_BangObjectLt == <<"!", "O", "b", "j", "e", "c", "t", "<">>
STR_Comma == <<",">>
STR_LBrace == <<"{">>
STR_RBrace == <<"}">>
STR_Function == <<"F", "u", "n", "c", "t", "i", "o", "n">>
STR_functionLParen == <<"f", "u", "n", "c", "t", "i", "o", "n", "(">>
STR_this == <<"t", "h", "i", "s">>
STR_thisColon == <<"t", "h", "i", "s", ":", " ", "(">>
STR_DotDotDot == <<".", ".", ".">>
STR_Eq == <<"=">>
STR_Dot == <<".">>
STR_clutz == <<"ಠ", "_", "ಠ", ".", "c", "l", "u", "t", "z", ".">>

(***************************************************************************)
(* String operations of the JavaScript runtime used by the source.         *)
(***************************************************************************)
\* String.prototype.startsWith
StartsWith(s, p) == Len(s) >= Len(p) /\ SubSeq(s, 1, Len(p)) = p

\* String.prototype.substring(n): the string without its first n characters
Substring(s, n) == SubSeq(s, n + 1, Len(s))

\* s contains sub as a substring (String.prototype.includes)
Includes(s, sub) ==
  \E i \in 1..(Len(s) + 1) : i + Len(sub) - 1 <= Len(s) /\ SubSeq(s, i, i + Len(sub) - 1) = sub

\* Array.prototype.join
RECURSIVE Join(_, _)
Join(parts, sep) ==
  IF Len(parts) = 0 THEN <<>>
  ELSE IF Len(parts) = 1 THEN parts[1]
  ELSE parts[1] \o sep \o Join(Tail(parts), sep)

\* Array.prototype.indexOf, 1-based; 0 when absent
IndexOf(parts, el) ==
  IF \E i \in 1..Len(parts) : parts[i] = el
  THEN CHOOSE i \in 1..Len(parts) : parts[i] = el /\ \A j \in 1..(i - 1) : parts[j] # el
  ELSE 0

\* Array.prototype.filter((el, idx) => parts.indexOf(el) === idx), on parts[1..k]
RECURSIVE FilterFirst(_, _)
FilterFirst(parts, k) ==
  IF k = 0 THEN <<>>
  ELSE FilterFirst(parts, k - 1) \o
       (IF IndexOf(parts, parts[k]) = k THEN <<parts[k]>> ELSE <<>>)

Letters ==
  {"a", "b", "c", "d", "e", "f", "g", "h", "i", "j", "k", "l", "m", "n", "o", "p", "q",
   "r", "s", "t", "u", "v", "w", "x", "y", "z",
   "A", "B", "C", "D", "E", "F", "G", "H", "I", "J", "K", "L", "M", "N", "O", "P", "Q",
   "R", "S", "T", "U", "V", "W", "X", "Y", "Z"}
Digits == {"0", "1", "2", "3", "4", "5", "6", "7", "8", "9"}

\* a property name test that accepts every name
isValidClosurePropertyNameAlways(name) == TRUE

\* /^[a-zA-Z_][a-zA-Z0-9_]*$/.test(name)
isValidClosurePropertyName(name) ==
  /\ Len(name) >= 1
  /\ name[1] \in Letters \cup {"_"}
  /\ \A i \in 2..Len(name) : name[i] \in Letters \cup Digits \cup {"_"}

\* fileName.match(/\blib\.(?:[^/]+\.)?d\.ts$/) != null
isBuiltinLibDTS(fileName) ==
  \E i \in 1..Len(fileName) :
    /\ i + 3 <= Len(fileName)
    /\ SubSeq(fileName, i, i + 3) = <<"l", "i", "b", ".">>
    /\ (i = 1 \/ fileName[i - 1] \notin Letters \cup Digits \cup {"_"})
    /\ LET rest == SubSeq(fileName, i + 4, Len(fileName))
           dts == <<"d", ".", "t", "s">>
       IN \/ rest = dts
          \/ /\ Len(rest) >= 6
             /\ SubSeq(rest, Len(rest) - 4, Len(rest)) = <<".">> \o dts
             /\ \A j \in 1..(Len(rest) - 5) : rest[j] # "/"

(***************************************************************************)
(* path.normalize of the node runtime (POSIX), which the constructor and   *)
(* isBlacklisted apply to file names.                                      *)
(***************************************************************************)
\* the segments of p between "/" characters
RECURSIVE SplitPath(_, _, _)
SplitPath(p, i, cur) ==
  IF i > Len(p) THEN <<cur>>
  ELSE IF p[i] = "/" THEN <<cur>> \o SplitPath(p, i + 1, <<>>)
  ELSE SplitPath(p, i + 1, Append(cur, p[i]))

RECURSIVE NormalizeSegments(_, _, _, _)
NormalizeSegments(segs, i, acc, absolute) ==
  IF i > Len(segs) THEN acc
  ELSE LET s == segs[i] IN
    IF s = <<>> \/ s = <<".">> THEN NormalizeSegments(segs, i + 1, acc, absolute)
    ELSE IF s = <<".", ".">> THEN
      IF Len(acc) > 0 /\ acc[Len(acc)] # <<".", ".">>
      THEN NormalizeSegments(segs, i + 1, SubSeq(acc, 1, Len(acc) - 1), absolute)
      ELSE IF absolute THEN NormalizeSegments(segs, i + 1, acc, absolute)
      ELSE NormalizeSegments(segs, i + 1, Append(acc, s), absolute)
    ELSE NormalizeSegments(segs, i + 1, Append(acc, s), absolute)

PathNormalize(p) ==
  IF Len(p) = 0 THEN <<".">>
  ELSE LET absolute == p[1] = "/"
           trailing == p[Len(p)] = "/"
           body == Join(NormalizeSegments(SplitPath(p, 1, <<>>), 1, <<>>, absolute), <<"/">>)
           body2 == IF Len(body) = 0 /\ ~absolute THEN <<".">> ELSE body
           body3 == IF Len(body2) > 0 /\ trailing THEN body2 \o <<"/">> ELSE body2
       IN IF absolute THEN <<"/">> \o body3 ELSE body3

(***************************************************************************)
(* The objects the TypeScript compiler API hands to the translator: source *)
(* files, declarations with their ancestor chains, symbols, signatures and *)
(* types.  The translator only reads them.  The universe below holds one   *)
(* object for each shape the translator distinguishes, including type      *)
(* graphs with cycles.                                                     *)
(***************************************************************************)
NoSymbol == "NoSymbol"
NoType == "NoType"

\* ts.SourceFile: fileName, isDeclarationFile, ts.isExternalModule(sf)
SourceFiles ==
  [ m   |-> [fileName |-> <<"/", "m", ".", "t", "s">>, isDeclarationFile |-> FALSE, isExternalModule |-> TRUE],
    o   |-> [fileName |-> <<"/", "o", ".", "t", "s">>, isDeclarationFile |-> FALSE, isExternalModule |-> TRUE],
    g   |-> [fileName |-> <<"/", "g", ".", "t", "s">>, isDeclarationFile |-> FALSE, isExternalModule |-> FALSE],
    lib |-> [fileName |-> <<"/", "l", "i", "b", ".", "d", ".", "t", "s">>, isDeclarationFile |-> TRUE, isExternalModule |-> FALSE],
    bl  |-> [fileName |-> <<"/", "x", "/", "b", "l", ".", "t", "s">>, isDeclarationFile |-> FALSE, isExternalModule |-> FALSE],
    blRel |-> [fileName |-> <<"/", "x", "/", "y", "/", ".", ".", "/", "b", "l", ".", "t", "s">>, isDeclarationFile |-> FALSE, isExternalModule |-> FALSE] ]

\* the source file of this.node, the AST node the translator was constructed for
NodeFile == "m"

\* An AST node on a declaration's parent chain.  modifiers is
\* ts.getCombinedModifierFlags(node), as the set of flags that are set.
AstNode(kind, modifiers) ==
  [kind |-> kind, modifiers |-> modifiers, nameIsStringLiteral |-> FALSE, nameText |-> <<>>]
SourceFileNode == AstNode("SourceFile", {})
\* namespace ns {...} (identifier name)
NamespaceNode(modifiers) == AstNode("ModuleDeclaration", modifiers)
\* declare module 'name' {...} (string literal name)
AmbientModuleNode(name) ==
  [kind |-> "ModuleDeclaration", modifiers |-> {"Ambient"}, nameIsStringLiteral |-> TRUE,
   nameText |-> name]

\* ts.Declaration: its own node, the file it is in (getSourceFile()), and its
\* ancestors, nearest first (an empty chain is a declaration whose parent is
\* undefined)
Decl(kind, file, modifiers, parents) ==
  [kind |-> kind, modifiers |-> modifiers, nameIsStringLiteral |-> FALSE, nameText |-> <<>>,
   file |-> file, sourceFile |-> SourceFiles[file], parents |-> parents]
TopLevel == <<SourceFileNode>>

\* ts.Symbol.  entityName is what typeChecker.symbolToEntityName(sym, ...) yields
\* for it, as the identifiers of the qualified name from left to right, each with
\* the symbol it carries; members are the keys of symbol.members in order, each
\* with the type typeChecker.getTypeOfSymbolAtLocation gives the member.
SymbolOf(id, name, flags, declarations) ==
  [name |-> name, flags |-> flags, hasDeclarations |-> TRUE, declarations |-> declarations,
   parent |-> NoSymbol, aliasedSymbol |-> NoSymbol,
   hasEntityName |-> TRUE, entityName |-> <<[text |-> name, symbol |-> id]>>,
   hasMembers |-> FALSE, members |-> <<>>]

\* the symbol of a function declared in the script /g.ts
FunctionSymbol(id) ==
  SymbolOf(id, <<"f">>, {"Function"}, <<Decl("FunctionDeclaration", "g", {}, TopLevel)>>)

\* the symbol of a type literal, named __type
TypeLiteralSymbol(id, members) ==
  [hasMembers |-> TRUE, members |-> members] @@
  SymbolOf(id, <<"_", "_", "t", "y", "p", "e">>, {"TypeLiteral"}, <<Decl("TypeLiteral", "g", {}, <<AstNode("VariableDeclaration", {}), SourceFileNode>>)>>)

\* the ancestors of the name bound by import {Name as Local} from '...'
ImportedName ==
  <<AstNode("NamedImports", {}), AstNode("ImportClause", {}), AstNode("ImportDeclaration", {}),
    SourceFileNode>>

InNamespace(modifiers) == <<AstNode("ModuleBlock", {}), NamespaceNode(modifiers), SourceFileNode>>

\* the ancestors of a declaration made directly in declare module 'name' {...}
InAmbientModule(name) == <<AstNode("ModuleBlock", {}), AmbientModuleNode(name), SourceFileNode>>

Symbols ==
  [ sFoo   |-> SymbolOf("sFoo", <<"F", "o", "o">>, {"Class"}, <<Decl("ClassDeclaration", "m", {"Export"}, TopLevel)>>),
    sIface |-> SymbolOf("sIface", <<"I", "f", "a", "c", "e">>, {"Interface"}, <<Decl("InterfaceDeclaration", "g", {}, TopLevel)>>),
    sArray |-> SymbolOf("sArray", <<"A", "r", "r", "a", "y">>, {"Interface", "FunctionScopedVariable"},
                 <<Decl("InterfaceDeclaration", "lib", {}, TopLevel),
                   Decl("VariableDeclaration", "lib", {"Ambient"}, <<AstNode("VariableDeclarationList", {}), AstNode("VariableStatement", {"Ambient"}), SourceFileNode>>)>>),
    sMap   |-> SymbolOf("sMap", <<"M", "a", "p">>, {"Interface", "FunctionScopedVariable"},
                 <<Decl("InterfaceDeclaration", "lib", {}, TopLevel),
                   Decl("VariableDeclaration", "lib", {"Ambient"}, <<AstNode("VariableDeclarationList", {}), AstNode("VariableStatement", {"Ambient"}), SourceFileNode>>)>>),
    sTv    |-> SymbolOf("sTv", <<"T", "v">>, {"Interface", "FunctionScopedVariable"},
                 <<Decl("InterfaceDeclaration", "g", {}, TopLevel),
                   Decl("VariableDeclaration", "g", {}, <<AstNode("VariableDeclarationList", {}), AstNode("VariableStatement", {}), SourceFileNode>>)>>),
    sNs    |-> SymbolOf("sNs", <<"n", "s">>, {"ValueModule"}, <<Decl("ModuleDeclaration", "g", {}, TopLevel)>>),
    sInner |-> [parent |-> "sNs",
                entityName |-> <<[text |-> <<"n", "s">>, symbol |-> "sNs"], [text |-> <<"I", "n", "n", "e", "r">>, symbol |-> "sInner"]>>] @@
               SymbolOf("sInner", <<"I", "n", "n", "e", "r">>, {"Class"}, <<Decl("ClassDeclaration", "g", {"Export"}, InNamespace({}))>>),
    sDns   |-> SymbolOf("sDns", <<"d", "n", "s">>, {"ValueModule"}, <<Decl("ModuleDeclaration", "g", {"Ambient"}, TopLevel)>>),
    sDn    |-> [parent |-> "sDns",
                entityName |-> <<[text |-> <<"d", "n", "s">>, symbol |-> "sDns"], [text |-> <<"D", "n">>, symbol |-> "sDn"]>>] @@
               SymbolOf("sDn", <<"D", "n">>, {"Class"}, <<Decl("ClassDeclaration", "g", {"Export"}, InNamespace({"Ambient"}))>>),
    sAmb   |-> SymbolOf("sAmb", <<"A", "m", "b">>, {"Class"}, <<Decl("ClassDeclaration", "m", {"Ambient", "Export"}, TopLevel)>>),
    sNever |-> SymbolOf("sNever", <<"N", "e", "v", "e", "r">>, {"Class"}, <<Decl("ClassDeclaration", "bl", {"Export"}, TopLevel)>>),
    sBlEnum |-> SymbolOf("sBlEnum", <<"B", "l", "E">>, {"RegularEnum"}, <<Decl("EnumDeclaration", "bl", {"Export"}, TopLevel)>>),
    sBlT   |-> SymbolOf("sBlT", <<"V">>, {"TypeParameter"}, <<Decl("TypeParameter", "bl", {}, <<AstNode("ClassDeclaration", {"Export"}), SourceFileNode>>)>>),
    sImp   |-> SymbolOf("sImp", <<"I", "m", "p">>, {"Class"}, <<Decl("ClassDeclaration", "o", {"Export"}, TopLevel)>>),
    sQi    |-> SymbolOf("sQi", <<"Q", "i">>, {"Interface"}, <<Decl("InterfaceDeclaration", "g", {}, TopLevel)>>),
    sQc    |-> SymbolOf("sQc", <<"Q", "c">>, {"Class"}, <<Decl("ClassDeclaration", "g", {}, TopLevel)>>),
    sT     |-> SymbolOf("sT", <<"T">>, {"TypeParameter"}, <<Decl("TypeParameter", "g", {}, <<AstNode("FunctionType", {}), SourceFileNode>>)>>),
    sU     |-> SymbolOf("sU", <<"U">>, {"TypeParameter"}, <<Decl("TypeParameter", "g", {}, <<AstNode("ConstructSignature", {}), SourceFileNode>>)>>),
    sE     |-> SymbolOf("sE", <<"E">>, {"RegularEnum"}, <<Decl("EnumDeclaration", "g", {}, TopLevel)>>),
    sEA    |-> [parent |-> "sE",
                entityName |-> <<[text |-> <<"E">>, symbol |-> "sE"], [text |-> <<"A">>, symbol |-> "sEA"]>>] @@
               SymbolOf("sEA", <<"A">>, {"EnumMember"}, <<Decl("EnumMember", "g", {}, <<AstNode("EnumDeclaration", {}), SourceFileNode>>)>>),
    sEB    |-> [parent |-> "sE",
                entityName |-> <<[text |-> <<"E">>, symbol |-> "sE"], [text |-> <<"B">>, symbol |-> "sEB"]>>] @@
               SymbolOf("sEB", <<"B">>, {"EnumMember"}, <<Decl("EnumMember", "g", {}, <<AstNode("EnumDeclaration", {}), SourceFileNode>>)>>),
    sS     |-> SymbolOf("sS", <<"S">>, {"RegularEnum"}, <<Decl("EnumDeclaration", "g", {}, TopLevel)>>),
    sSC    |-> [parent |-> "sS",
                entityName |-> <<[text |-> <<"S">>, symbol |-> "sS"], [text |-> <<"C">>, symbol |-> "sSC"]>>] @@
               SymbolOf("sSC", <<"C">>, {"EnumMember"}, <<Decl("EnumMember", "g", {}, <<AstNode("EnumDeclaration", {}), SourceFileNode>>)>>),
    sF     |-> SymbolOf("sF", <<"f">>, {"Function"}, <<Decl("FunctionDeclaration", "g", {}, TopLevel)>>),
    sFSelf |-> SymbolOf("sFSelf", <<"h">>, {"Function"}, <<Decl("FunctionDeclaration", "g", {}, TopLevel)>>),
    sMn    |-> SymbolOf("sMn", <<"n">>, {"ValueModule"}, <<Decl("ModuleDeclaration", "m", {"Export"}, InAmbientModule(<<"a", "m", "b">>))>>),
    sMd    |-> [parent |-> "sMn",
                entityName |-> <<[text |-> <<"n">>, symbol |-> "sMn"], [text |-> <<"D">>, symbol |-> "sMd"]>>] @@
               SymbolOf("sMd", <<"D">>, {"Class"},
                 <<Decl("ClassDeclaration", "m", {"Export"},
                        <<AstNode("ModuleBlock", {}), NamespaceNode({"Export"})>> \o InAmbientModule(<<"a", "m", "b">>))>>),
    sAug   |-> SymbolOf("sAug", <<"A", "u", "g">>, {"Interface"},
                 <<Decl("InterfaceDeclaration", "m", {"Export"}, InAmbientModule(<<".", "/", "o">>)),
                   Decl("InterfaceDeclaration", "o", {"Export"}, TopLevel)>>),
    sUndeclared |-> [hasDeclarations |-> FALSE, declarations |-> <<>>] @@
               SymbolOf("sUndeclared", <<"O", "b", "j">>, {"Interface"}, <<>>),
    sSpread |-> SymbolOf("sSpread", <<"s", "p", "r", "e", "a", "d">>, {"Function"}, <<Decl("FunctionDeclaration", "g", {}, TopLevel)>>),
    sAnonClass |-> [hasEntityName |-> FALSE, entityName |-> <<>>] @@
               SymbolOf("sAnonClass", <<"_", "_", "c", "l", "a", "s", "s">>, {"Class"}, <<Decl("ClassExpression", "g", {}, <<AstNode("VariableDeclaration", {}), SourceFileNode>>)>>),
    sObjAB |-> TypeLiteralSymbol("sObjAB", <<[name |-> <<"a">>, type |-> "tNumber"], [name |-> <<"b">>, type |-> "tString"]>>),
    sEmpty |-> TypeLiteralSymbol("sEmpty", <<>>),
    sSelf  |-> TypeLiteralSymbol("sSelf", <<[name |-> <<"s", "e", "l", "f">>, type |-> "tAnonSelf"], [name |-> <<"n">>, type |-> "tNumber"]>>),
    sPair  |-> TypeLiteralSymbol("sPair", <<[name |-> <<"x">>, type |-> "tObjAB"], [name |-> <<"y">>, type |-> "tObjAB"]>>),
    sQuoted |-> TypeLiteralSymbol("sQuoted", <<[name |-> <<"a", " ", "b">>, type |-> "tNumber"], [name |-> <<"c", "1">>, type |-> "tString"]>>),
    sArrow |-> TypeLiteralSymbol("sArrow", <<[name |-> STR_call, type |-> NoType]>>),
    sArrowSelf |-> TypeLiteralSymbol("sArrowSelf", <<[name |-> STR_call, type |-> NoType]>>),
    sGeneric |-> TypeLiteralSymbol("sGeneric", <<[name |-> STR_call, type |-> NoType]>>),
    sCtor  |-> TypeLiteralSymbol("sCtor", <<[name |-> <<"_", "_", "n", "e", "w">>, type |-> NoType]>>),
    sIndexS |-> TypeLiteralSymbol("sIndexS", <<[name |-> STR_index, type |-> NoType]>>),
    sOverload |-> TypeLiteralSymbol("sOverload", <<[name |-> STR_call, type |-> NoType]>>),
    sIndexN |-> TypeLiteralSymbol("sIndexN", <<[name |-> STR_index, type |-> NoType]>>),
    sIndexNone |-> TypeLiteralSymbol("sIndexNone", <<[name |-> STR_index, type |-> NoType]>>),
    sCallFields |-> TypeLiteralSymbol("sCallFields", <<[name |-> STR_call, type |-> NoType], [name |-> <<"n">>, type |-> "tNumber"]>>),
    sCallIndex |-> TypeLiteralSymbol("sCallIndex", <<[name |-> STR_call, type |-> NoType], [name |-> STR_index, type |-> NoType]>>),
    sQuotedCall |-> TypeLiteralSymbol("sQuotedCall", <<[name |-> <<"0", "x">>, type |-> "tNumber"], [name |-> STR_call, type |-> NoType]>>),
    sCtorNoDecl |-> TypeLiteralSymbol("sCtorNoDecl", <<[name |-> <<"_", "_", "n", "e", "w">>, type |-> NoType]>>),
    sCtorJSDoc |-> TypeLiteralSymbol("sCtorJSDoc", <<[name |-> <<"_", "_", "n", "e", "w">>, type |-> NoType]>>),
    sCtor2 |-> TypeLiteralSymbol("sCtor2", <<[name |-> <<"_", "_", "n", "e", "w">>, type |-> NoType]>>),
    sCtorRich |-> TypeLiteralSymbol("sCtorRich",
                    <<[name |-> <<"_", "_", "n", "e", "w">>, type |-> NoType],
                      [name |-> STR_call, type |-> NoType],
                      [name |-> STR_index, type |-> NoType],
                      [name |-> <<"n">>, type |-> "tNumber"]>>),
    sOrphan |-> SymbolOf("sOrphan", <<"O">>, {"EnumMember"}, <<Decl("EnumMember", "g", {}, <<AstNode("EnumDeclaration", {}), SourceFileNode>>)>>),
    sFJSDoc |-> SymbolOf("sFJSDoc", <<"j">>, {"Function"}, <<Decl("FunctionDeclaration", "g", {}, TopLevel)>>),
    sNoMembers |-> [hasMembers |-> FALSE] @@ TypeLiteralSymbol("sNoMembers", <<>>),
    sFnThis |-> FunctionSymbol("sFnThis"),
    sFnThisOnly |-> FunctionSymbol("sFnThisOnly"),
    sFnThisUntyped |-> FunctionSymbol("sFnThisUntyped"),
    sFnThisRestEmpty |-> FunctionSymbol("sFnThisRestEmpty"),
    sFnRestEmpty |-> FunctionSymbol("sFnRestEmpty"),
    sFnRestOpt |-> FunctionSymbol("sFnRestOpt"),
    sFnRestAny |-> FunctionSymbol("sFnRestAny"),
    sFnRestObj |-> FunctionSymbol("sFnRestObj"),
    sFnRestNone |-> FunctionSymbol("sFnRestNone"),
    sFnNoDecl |-> FunctionSymbol("sFnNoDecl"),
    sFnRest |-> FunctionSymbol("sFnRest"),
    sFnNone |-> FunctionSymbol("sFnNone"),
    sFnGeneric |-> FunctionSymbol("sFnGeneric"),
    sAlias |-> [aliasedSymbol |-> "sFoo"] @@
               SymbolOf("sAlias", <<"A", "l">>, {"Alias"}, <<Decl("ImportSpecifier", "m", {}, ImportedName)>>),
    sAliasImp |-> [aliasedSymbol |-> "sImp"] @@
               SymbolOf("sAliasImp", <<"A", "i">>, {"Alias"}, <<Decl("ImportSpecifier", "m", {}, ImportedName)>>),
    sMixed |-> SymbolOf("sMixed", <<"M", "x">>, {"Interface"},
                 <<Decl("InterfaceDeclaration", "bl", {}, TopLevel),
                   Decl("InterfaceDeclaration", "g", {}, TopLevel)>>),
    sBlTwice |-> SymbolOf("sBlTwice", <<"B", "t">>, {"Interface"},
                 <<Decl("InterfaceDeclaration", "bl", {}, TopLevel),
                   Decl("InterfaceDeclaration", "blRel", {}, TopLevel)>>),
    sNoDeclList |-> SymbolOf("sNoDeclList", <<"u", "n", "d", "e", "f", "i", "n", "e", "d">>, {"Property"}, <<>>) ]

SymbolIds == DOMAIN Symbols

\* the symbols that differ only in where their declarations are
DeclarationCaseSymbolIds == {"sMixed", "sBlTwice", "sNoDeclList"}

\* the symbols of the functions of FunctionCaseTypeIds
FunctionCaseSymbolIds ==
  {"sFnThis", "sFnThisOnly", "sFnThisUntyped", "sFnThisRestEmpty", "sFnRestEmpty",
   "sFnRestOpt", "sFnRestAny", "sFnRestObj", "sFnRestNone", "sFnNoDecl",
   "sFnRest", "sFnNone", "sFnGeneric"}

\* the symbols the host names under Spec
GeneralSymbolIds == SymbolIds \ (DeclarationCaseSymbolIds \cup FunctionCaseSymbolIds)

\* ts.Signature with its declaration: declaration is "none" (no declaration),
\* "JSDocSignature" or "real"; typeParameters holds, for each type parameter
\* declaration, the symbol typeChecker.getSymbolAtLocation(tpd.name) gives
\* (NoSymbol when it gives none); paramDecls are declaration.parameters;
\* parameters holds for each of sig.parameters its type at this.node
ParamDecl(name, hasType, type, questionToken, dotDotDotToken) ==
  [name |-> name, hasType |-> hasType, type |-> type,
   questionToken |-> questionToken, dotDotDotToken |-> dotDotDotToken]
SignatureOf(declaration, typeParameters, paramDecls, parameters, returnType) ==
  [declaration |-> declaration, hasTypeParameters |-> Len(typeParameters) > 0,
   typeParameters |-> typeParameters, paramDecls |-> paramDecls,
   parameters |-> parameters, returnType |-> returnType]

Signatures ==
  [ sigNumStr |-> SignatureOf("real", <<>>, <<ParamDecl(<<"x">>, TRUE, "tNumber", FALSE, FALSE)>>, <<"tNumber">>, "tString"),
    sigSelf   |-> SignatureOf("real", <<>>, <<>>, <<>>, "tFSelf"),
    sigSpread |-> SignatureOf("real", <<>>, <<ParamDecl(<<"a", "r", "g", "s">>, TRUE, "tTupleRef", FALSE, TRUE)>>, <<"tNumber", "tString">>, "tVoid"),
    sigArrowSelf |-> SignatureOf("real", <<>>, <<>>, <<>>, "tArrowSelf"),
    sigGeneric |-> SignatureOf("real", <<"sT">>, <<ParamDecl(<<"x">>, TRUE, "tT", FALSE, FALSE)>>, <<"tT">>, "tT"),
    sigCtor   |-> SignatureOf("real", <<"sU">>, <<ParamDecl(<<"u">>, TRUE, "tU", TRUE, FALSE)>>, <<"tU">>, "tIface"),
    sigJSDoc  |-> SignatureOf("JSDocSignature", <<"sT">>, <<>>, <<>>, "tT"),
    sigCtor0  |-> SignatureOf("real", <<>>, <<>>, <<>>, "tFoo"),
    sigCtor2  |-> SignatureOf("real", <<>>,
                    <<ParamDecl(<<"x">>, TRUE, "tNumber", FALSE, FALSE),
                      ParamDecl(<<"r">>, TRUE, "tArrayNum", FALSE, TRUE)>>,
                    <<"tNumber", "tArrayNum">>, "tFoo"),
    sigThis   |-> SignatureOf("real", <<>>,
                    <<ParamDecl(STR_this, TRUE, "tFoo", FALSE, FALSE),
                      ParamDecl(<<"x">>, TRUE, "tNumber", FALSE, FALSE)>>,
                    <<"tNumber">>, "tVoid"),
    sigThisOnly |-> SignatureOf("real", <<>>, <<ParamDecl(STR_this, TRUE, "tFoo", FALSE, FALSE)>>, <<>>, "tVoid"),
    sigThisUntyped |-> SignatureOf("real", <<>>,
                    <<ParamDecl(STR_this, FALSE, NoType, FALSE, FALSE),
                      ParamDecl(<<"x">>, TRUE, "tNumber", FALSE, FALSE)>>,
                    <<"tNumber">>, "tVoid"),
    sigThisRestEmpty |-> SignatureOf("real", <<>>,
                    <<ParamDecl(STR_this, TRUE, "tFoo", FALSE, FALSE),
                      ParamDecl(<<"r">>, TRUE, "tTupleTarget", FALSE, TRUE)>>,
                    <<"tTupleTarget">>, "tVoid"),
    sigRestEmpty |-> SignatureOf("real", <<>>,
                    <<ParamDecl(<<"x">>, TRUE, "tNumber", TRUE, FALSE),
                      ParamDecl(<<"r">>, TRUE, "tTupleTarget", FALSE, TRUE)>>,
                    <<"tNumber", "tTupleTarget">>, "tVoid"),
    sigRestOpt |-> SignatureOf("real", <<>>,
                    <<ParamDecl(<<"r">>, TRUE, "tMapRef", TRUE, TRUE)>>, <<"tMapRef">>, "tVoid"),
    sigRestAny |-> SignatureOf("real", <<>>,
                    <<ParamDecl(<<"x">>, TRUE, "tNumber", FALSE, FALSE),
                      ParamDecl(<<"r">>, TRUE, "tAny", TRUE, TRUE)>>,
                    <<"tNumber", "tAny">>, "tVoid"),
    sigRestObj |-> SignatureOf("real", <<>>,
                    <<ParamDecl(<<"r">>, TRUE, "tObjAB", FALSE, TRUE)>>, <<"tObjAB">>, "tString"),
    sigRestNone |-> SignatureOf("real", <<>>,
                    <<ParamDecl(<<"r">>, TRUE, "tArrayNone", FALSE, TRUE)>>, <<"tArrayNone">>, "tVoid"),
    sigNoDecl |-> SignatureOf("none", <<>>, <<>>, <<>>, "tString") ]

SignatureIds == DOMAIN Signatures

\* ts.Type.  baseTypeOfLiteral is typeChecker.getBaseTypeOfLiteralType(type);
\* callSignatures and constructSignatures are what getSignaturesOfType and
\* getConstructSignatures give; stringIndexType and numberIndexType what
\* getIndexTypeOfType gives
TypeOf(id, flags) ==
  [flags |-> flags, objectFlags |-> {}, symbol |-> NoSymbol, target |-> NoType,
   hasTypeArguments |-> FALSE, typeArguments |-> <<>>, types |-> <<>>,
   callSignatures |-> <<>>, constructSignatures |-> <<>>,
   stringIndexType |-> NoType, numberIndexType |-> NoType, baseTypeOfLiteral |-> id]
ObjectType(id, objectFlags, symbol) ==
  [objectFlags |-> objectFlags, symbol |-> symbol] @@ TypeOf(id, {"Object"})
\* the type of a declared function with one signature
FunctionType(id, symbol, sig) ==
  [callSignatures |-> <<sig>>] @@ ObjectType(id, {"Anonymous"}, symbol)
ReferenceType(id, symbol, target, typeArguments) ==
  [target |-> target, hasTypeArguments |-> TRUE, typeArguments |-> typeArguments] @@
  ObjectType(id, {"Reference"}, symbol)
UnionType(id, flags, types) == [types |-> types] @@ TypeOf(id, flags)

Types ==
  [ tAny     |-> TypeOf("tAny", {"Any"}),
    tUnknown |-> TypeOf("tUnknown", {"Unknown"}),
    tString  |-> TypeOf("tString", {"String"}),
    tNumber  |-> TypeOf("tNumber", {"Number"}),
    tTrue    |-> TypeOf("tTrue", {"BooleanLiteral"}),
    tFalse   |-> TypeOf("tFalse", {"BooleanLiteral"}),
    tBoolean |-> UnionType("tBoolean", {"Boolean", "Union"}, <<"tFalse", "tTrue">>),
    tVoid    |-> TypeOf("tVoid", {"Void"}),
    tNull    |-> TypeOf("tNull", {"Null"}),
    tNever   |-> TypeOf("tNever", {"Never"}),
    tObject  |-> TypeOf("tObject", {"NonPrimitive"}),
    tBigIntLiteral |-> TypeOf("tBigIntLiteral", {"BigIntLiteral"}),
    tStringLiteral |-> TypeOf("tStringLiteral", {"StringLiteral"}),
    tNumberLiteral |-> TypeOf("tNumberLiteral", {"NumberLiteral"}),
    tBooleanOnly |-> TypeOf("tBooleanOnly", {"Boolean"}),
    tESSymbol |-> TypeOf("tESSymbol", {"ESSymbol"}),
    tUniqueESSymbol |-> TypeOf("tUniqueESSymbol", {"UniqueESSymbol"}),
    tUndefined |-> TypeOf("tUndefined", {"Undefined"}),
    tUndefinedWidening |-> TypeOf("tUndefinedWidening", {"Undefined", "ContainsWideningType"}),
    tBigInt  |-> TypeOf("tBigInt", {"BigInt"}),
    tConditional |-> TypeOf("tConditional", {"Conditional"}),
    tSubstitution |-> TypeOf("tSubstitution", {"Substitution"}),
    tIntersection |-> TypeOf("tIntersection", {"Intersection"}),
    tIndex   |-> TypeOf("tIndex", {"Index"}),
    tIndexedAccess |-> TypeOf("tIndexedAccess", {"IndexedAccess"}),
    tFoo     |-> ObjectType("tFoo", {"Class"}, "sFoo"),
    tIface   |-> ObjectType("tIface", {"Interface"}, "sIface"),
    tArray   |-> [target |-> "tArray"] @@ ObjectType("tArray", {"Interface", "Reference"}, "sArray"),
    tArrayNum |-> ReferenceType("tArrayNum", "sArray", "tArray", <<"tNumber">>),
    tMap     |-> [target |-> "tMap"] @@ ObjectType("tMap", {"Interface", "Reference"}, "sMap"),
    tMapRef  |-> ReferenceType("tMapRef", "sMap", "tMap", <<"tObjAB", "tObjAB">>),
    tTv      |-> ObjectType("tTv", {"Interface"}, "sTv"),
    tInner   |-> ObjectType("tInner", {"Class"}, "sInner"),
    tDn      |-> ObjectType("tDn", {"Class"}, "sDn"),
    tAmb     |-> ObjectType("tAmb", {"Class"}, "sAmb"),
    tImp     |-> ObjectType("tImp", {"Class"}, "sImp"),
    tAnonClass |-> ObjectType("tAnonClass", {"Class"}, "sAnonClass"),
    tMd      |-> ObjectType("tMd", {"Class"}, "sMd"),
    tAug     |-> ObjectType("tAug", {"Interface"}, "sAug"),
    tNeverTyped |-> [target |-> "tNeverTyped"] @@ ObjectType("tNeverTyped", {"Class", "Reference"}, "sNever"),
    tNeverRef |-> ReferenceType("tNeverRef", "sNever", "tNeverTyped", <<"tNumber">>),
    tBlEnum  |-> [symbol |-> "sBlEnum"] @@ TypeOf("tBlEnum", {"Enum"}),
    tBlT     |-> [symbol |-> "sBlT"] @@ TypeOf("tBlT", {"TypeParameter"}),
    tQi      |-> [target |-> "tQi"] @@ ObjectType("tQi", {"Interface", "Reference"}, "sQi"),
    tQiRef   |-> ReferenceType("tQiRef", "sQi", "tQi", <<"tNumber">>),
    tQc      |-> ObjectType("tQc", {"Class"}, "sQc"),
    tT       |-> [symbol |-> "sT"] @@ TypeOf("tT", {"TypeParameter"}),
    tU       |-> [symbol |-> "sU"] @@ TypeOf("tU", {"TypeParameter"}),
    tThis    |-> [symbol |-> "sQc"] @@ TypeOf("tThis", {"TypeParameter"}),
    tE       |-> [symbol |-> "sE"] @@ UnionType("tE", {"EnumLiteral", "Union"}, <<"tEA", "tEB">>),
    tEA      |-> [symbol |-> "sEA", baseTypeOfLiteral |-> "tE"] @@ TypeOf("tEA", {"NumberLiteral", "EnumLiteral"}),
    tEB      |-> [symbol |-> "sEB", baseTypeOfLiteral |-> "tE"] @@ TypeOf("tEB", {"NumberLiteral", "EnumLiteral"}),
    tSC      |-> [symbol |-> "sSC"] @@ TypeOf("tSC", {"NumberLiteral", "EnumLiteral"}),
    tStrNum  |-> UnionType("tStrNum", {"Union"}, <<"tString", "tNumber">>),
    tBoolTrue |-> UnionType("tBoolTrue", {"Union"}, <<"tBoolean", "tTrue">>),
    tEnums   |-> UnionType("tEnums", {"Union"}, <<"tSC", "tEA", "tEB">>),
    tObjUnion |-> UnionType("tObjUnion", {"Union"}, <<"tObjAB", "tPair">>),
    tStrNever |-> UnionType("tStrNever", {"Union"}, <<"tString", "tNeverTyped">>),
    tObjAB   |-> ObjectType("tObjAB", {"Anonymous"}, "sObjAB"),
    tEmpty   |-> ObjectType("tEmpty", {"Anonymous"}, "sEmpty"),
    tAnonSelf |-> ObjectType("tAnonSelf", {"Anonymous"}, "sSelf"),
    tPair    |-> ObjectType("tPair", {"Anonymous"}, "sPair"),
    tQuoted  |-> ObjectType("tQuoted", {"Anonymous"}, "sQuoted"),
    tNoSymbol |-> ObjectType("tNoSymbol", {"Anonymous"}, NoSymbol),
    tNoMembers |-> ObjectType("tNoMembers", {"Anonymous"}, "sNoMembers"),
    tMapped  |-> ObjectType("tMapped", {"Mapped"}, "sObjAB"),
    tArrow   |-> [callSignatures |-> <<"sigNumStr">>] @@ ObjectType("tArrow", {"Anonymous"}, "sArrow"),
    tArrowSelf |-> [callSignatures |-> <<"sigArrowSelf">>] @@ ObjectType("tArrowSelf", {"Anonymous"}, "sArrowSelf"),
    tGeneric |-> [callSignatures |-> <<"sigGeneric">>] @@ ObjectType("tGeneric", {"Anonymous"}, "sGeneric"),
    tCtor    |-> [constructSignatures |-> <<"sigCtor">>] @@ ObjectType("tCtor", {"Anonymous"}, "sCtor"),
    tIndexS  |-> [stringIndexType |-> "tFoo"] @@ ObjectType("tIndexS", {"Anonymous"}, "sIndexS"),
    tF       |-> [callSignatures |-> <<"sigNumStr">>] @@ ObjectType("tF", {"Anonymous"}, "sF"),
    tFSelf   |-> [callSignatures |-> <<"sigSelf">>] @@ ObjectType("tFSelf", {"Anonymous"}, "sFSelf"),
    tSpread  |-> [callSignatures |-> <<"sigSpread">>] @@ ObjectType("tSpread", {"Anonymous"}, "sSpread"),
    tOverload |-> [callSignatures |-> <<"sigNumStr", "sigNoDecl">>] @@ ObjectType("tOverload", {"Anonymous"}, "sOverload"),
    tIndexN  |-> [numberIndexType |-> "tString"] @@ ObjectType("tIndexN", {"Anonymous"}, "sIndexN"),
    tIndexNone |-> ObjectType("tIndexNone", {"Anonymous"}, "sIndexNone"),
    tCallFields |-> [callSignatures |-> <<"sigNumStr">>] @@ ObjectType("tCallFields", {"Anonymous"}, "sCallFields"),
    tCallIndex |-> [callSignatures |-> <<"sigNumStr">>, stringIndexType |-> "tNumber"] @@ ObjectType("tCallIndex", {"Anonymous"}, "sCallIndex"),
    tQuotedCall |-> [callSignatures |-> <<"sigNumStr">>] @@ ObjectType("tQuotedCall", {"Anonymous"}, "sQuotedCall"),
    tCtorNoDecl |-> [constructSignatures |-> <<"sigNoDecl">>] @@ ObjectType("tCtorNoDecl", {"Anonymous"}, "sCtorNoDecl"),
    tCtorJSDoc |-> [constructSignatures |-> <<"sigJSDoc">>] @@ ObjectType("tCtorJSDoc", {"Anonymous"}, "sCtorJSDoc"),
    tCtor2   |-> [constructSignatures |-> <<"sigCtor2">>] @@ ObjectType("tCtor2", {"Anonymous"}, "sCtor2"),
    tCtorRich |-> [constructSignatures |-> <<"sigCtor0", "sigCtor2">>, callSignatures |-> <<"sigNumStr">>,
                   stringIndexType |-> "tNumber"] @@ ObjectType("tCtorRich", {"Anonymous"}, "sCtorRich"),
    tLitNoBase |-> [symbol |-> "sEA", baseTypeOfLiteral |-> "tNumber"] @@ TypeOf("tLitNoBase", {"NumberLiteral", "EnumLiteral"}),
    tLitOrphan |-> [symbol |-> "sOrphan"] @@ TypeOf("tLitOrphan", {"NumberLiteral", "EnumLiteral"}),
    tLitUnnamed |-> [symbol |-> "sEA", baseTypeOfLiteral |-> "tAnonClass"] @@ TypeOf("tLitUnnamed", {"NumberLiteral", "EnumLiteral"}),
    tArrayNone |-> ReferenceType("tArrayNone", "sArray", "tArray", <<>>),
    tFJSDoc  |-> [callSignatures |-> <<"sigJSDoc">>] @@ ObjectType("tFJSDoc", {"Anonymous"}, "sFJSDoc"),
    tFnThis |-> FunctionType("tFnThis", "sFnThis", "sigThis"),
    tFnThisOnly |-> FunctionType("tFnThisOnly", "sFnThisOnly", "sigThisOnly"),
    tFnThisUntyped |-> FunctionType("tFnThisUntyped", "sFnThisUntyped", "sigThisUntyped"),
    tFnThisRestEmpty |-> FunctionType("tFnThisRestEmpty", "sFnThisRestEmpty", "sigThisRestEmpty"),
    tFnRestEmpty |-> FunctionType("tFnRestEmpty", "sFnRestEmpty", "sigRestEmpty"),
    tFnRestOpt |-> FunctionType("tFnRestOpt", "sFnRestOpt", "sigRestOpt"),
    tFnRestAny |-> FunctionType("tFnRestAny", "sFnRestAny", "sigRestAny"),
    tFnRestObj |-> FunctionType("tFnRestObj", "sFnRestObj", "sigRestObj"),
    tFnRestNone |-> FunctionType("tFnRestNone", "sFnRestNone", "sigRestNone"),
    tFnNoDecl |-> FunctionType("tFnNoDecl", "sFnNoDecl", "sigNoDecl"),
    tFnRest |-> FunctionType("tFnRest", "sFnRest", "sigCtor2"),
    tFnNone |-> FunctionType("tFnNone", "sFnNone", "sigCtor0"),
    tFnGeneric |-> FunctionType("tFnGeneric", "sFnGeneric", "sigGeneric"),
    tTupleTarget |-> [target |-> "tTupleTarget"] @@ ObjectType("tTupleTarget", {"Reference", "Tuple"}, NoSymbol),
    tTupleRef |-> ReferenceType("tTupleRef", NoSymbol, "tTupleTarget", <<"tString", "tNumber">>),
    tRefSelf |-> ReferenceType("tRefSelf", NoSymbol, "tRefSelf", <<"tNumber">>),
    tRefA    |-> ReferenceType("tRefA", NoSymbol, "tRefB", <<"tNumber">>),
    tRefB    |-> ReferenceType("tRefB", NoSymbol, "tRefA", <<"tNumber">>),
    tRefArgSelf |-> ReferenceType("tRefArgSelf", "sArray", "tArray", <<"tRefArgSelf">>) ]

TypeIds == DOMAIN Types

\* the types that stand for one structural case each (an anonymous object
\* shape, a constructor type, an enum literal, a reference with an empty
\* argument list or a function documented in JSDoc); they are translated
\* under SpecShapes
ShapeCaseTypeIds ==
  {"tOverload", "tIndexN", "tIndexNone", "tCallFields", "tCallIndex", "tQuotedCall",
   "tCtorNoDecl", "tCtorJSDoc", "tCtor2", "tCtorRich",
   "tLitNoBase", "tLitOrphan", "tLitUnnamed", "tArrayNone", "tFJSDoc"}

\* the types of declared functions that stand for one shape of signature each;
\* they are translated under SpecSignatures
FunctionCaseTypeIds ==
  {"tFnThis", "tFnThisOnly", "tFnThisUntyped", "tFnThisRestEmpty", "tFnRestEmpty",
   "tFnRestOpt", "tFnRestAny", "tFnRestObj", "tFnRestNone", "tFnNoDecl",
   "tFnRest", "tFnNone", "tFnGeneric"}

\* the types of declared functions translated under SpecSignatures
FunctionTypeIds == FunctionCaseTypeIds \cup {"tF", "tSpread", "tFJSDoc"}

\* the types the host translates under Spec
GeneralTypeIds == TypeIds \ (ShapeCaseTypeIds \cup FunctionCaseTypeIds)

\* the types the host translates under SpecShapes
ShapeTypeIds ==
  ShapeCaseTypeIds \cup {"tObjAB", "tEmpty", "tQuoted", "tNoMembers", "tArrow", "tIndexS", "tCtor",
                         "tE", "tEA", "tEB", "tSC", "tEnums", "tArrayNum", "tMapRef",
                         "tGeneric", "tImp"}

(***************************************************************************)
(* ts.TypeFlags, ts.ObjectFlags and ts.SymbolFlags are bit fields; a value *)
(* is modelled as the set of the flags that are set, so that               *)
(* (flags & F) !== 0 is F \in flags and flags === F is flags = {F}.        *)
(***************************************************************************)
\* a mask whose lastFlag is ts.TypeFlags.Conditional, one flag short
PublicTypeFlagsUpToConditional ==
  {"Any", "Unknown", "String", "Number", "Boolean", "Enum", "BigInt", "StringLiteral",
   "NumberLiteral", "BooleanLiteral", "EnumLiteral", "BigIntLiteral", "ESSymbol",
   "UniqueESSymbol", "Void", "Undefined", "Null", "Never", "TypeParameter", "Object",
   "Union", "Intersection", "Index", "IndexedAccess", "Conditional"}

\* the flags up to lastFlag = ts.TypeFlags.Substitution: (lastFlag << 1) - 1
PublicTypeFlags ==
  {"Any", "Unknown", "String", "Number", "Boolean", "Enum", "BigInt", "StringLiteral",
   "NumberLiteral", "BooleanLiteral", "EnumLiteral", "BigIntLiteral", "ESSymbol",
   "UniqueESSymbol", "Void", "Undefined", "Null", "Never", "TypeParameter", "Object",
   "Union", "Intersection", "Index", "IndexedAccess", "Conditional", "Substitution"}

\* ts.SymbolFlags.Value
SymbolFlagsValue ==
  {"FunctionScopedVariable", "BlockScopedVariable", "Property", "EnumMember", "ObjectLiteral",
   "Function", "Class", "RegularEnum", "ConstEnum", "ValueModule", "Method", "GetAccessor",
   "SetAccessor"}

\* the nodes current, current.parent, ... of a declaration
NodeChain(decl) == <<decl>> \o decl.parents

\* symbol.declarations || [], of a ts.Symbol object
DeclarationsOf(symbol) ==
  IF symbol.hasDeclarations THEN symbol.declarations ELSE <<>>

(***************************************************************************)
(* Helpers of type_translator.ts outside the class.                        *)
(***************************************************************************)
\* isClosureProvidedType(symbol), of a ts.Symbol object
isClosureProvidedType(symbol) ==
  /\ symbol.hasDeclarations
  /\ \E i \in 1..Len(symbol.declarations) :
       isBuiltinLibDTS(symbol.declarations[i].sourceFile.fileName)

\* the string-literal-named module declarations among the ancestors of decl
AmbientModuleAncestors(decl) ==
  {j \in 1..Len(decl.parents) :
     decl.parents[j].kind = "ModuleDeclaration" /\ decl.parents[j].nameIsStringLiteral}

\* [found, name]: the nearest such ancestor of the first declaration that has one
getContainingAmbientModuleDeclaration(declarations) ==
  LET having == {i \in 1..Len(declarations) : AmbientModuleAncestors(declarations[i]) # {}}
  IN IF having = {} THEN [found |-> FALSE, name |-> <<>>]
     ELSE LET i == CHOOSE i \in having : \A k \in having : i <= k
              anc == AmbientModuleAncestors(declarations[i])
              j == CHOOSE j \in anc : \A k \in anc : j <= k
          IN [found |-> TRUE, name |-> declarations[i].parents[j].nameText]

isTopLevelExternal(declarations) ==
  \E i \in 1..Len(declarations) :
    /\ Len(declarations[i].parents) > 0
    /\ declarations[i].parents[1].kind = "SourceFile"
    /\ declarations[i].sourceFile.isExternalModule

\* isDeclaredInSameFile(this.node, d)
isDeclaredInSameFile(decl) == decl.file = NodeFile

\* isAmbient of transformer_util: the node or an ancestor has the Ambient modifier
isAmbientDeclaration(decl) ==
  \E j \in 1..Len(NodeChain(decl)) : "Ambient" \in NodeChain(decl)[j].modifiers

\* hasModifierFlag(d, ts.ModifierFlags.Export)
hasExportModifier(decl) == "Export" \in decl.modifiers

\* moduleNameAsIdentifier(host, fileName) of annotator_host: a legal identifier
\* made from the file name, every other character replaced by "$"
RECURSIVE moduleNameAsIdentifier(_)
moduleNameAsIdentifier(fileName) ==
  IF Len(fileName) = 0 THEN <<>>
  ELSE <<IF fileName[1] \in Letters \cup Digits \cup {"_"} THEN fileName[1] ELSE "$">>
       \o moduleNameAsIdentifier(Tail(fileName))

\* isBlacklisted(pathBlackList, symbol), of a ts.Symbol object
isBlacklisted(pathBlackList, symbol) ==
  IF ~pathBlackList.defined THEN FALSE
  ELSE IF ~symbol.hasDeclarations THEN FALSE
  ELSE \A i \in 1..Len(symbol.declarations) :
         PathNormalize(symbol.declarations[i].sourceFile.fileName) \in pathBlackList.paths

\* isBlackListed(symbol), the method of the instance
isBlackListed(symbol, st) == isBlacklisted(st.pathBlackList, st.checker.symbols[symbol])

(***************************************************************************)
(* The translator.  st is the translator instance together with the alias  *)
(* scope it was given: isForExterns, pathBlackList, seenAnonymousTypes     *)
(* (seen), symbolsToAliasedNames (alias), and, to observe a call, the      *)
(* translate calls made (log), the symbols handed to ensureSymbolDeclared  *)
(* (declared) and to symbolToString (named), the signatures translated     *)
(* (sigs), the types translateAnonymousType was entered with (anon), the   *)
(* translate calls that are on the call stack with the state they were     *)
(* entered in (stack), and the error thrown, if any (err).  st.checker     *)
(* holds the objects the translator reaches through this.typeChecker.      *)
(***************************************************************************)
Returns(out, st) == [out |-> out, st |-> st]
Throws(e, st) == [out |-> <<>>, st |-> [st EXCEPT !.err = e]]

\* the name module_type_translator's forward declare registers for a symbol
ForwardDeclareName(symbol) == <<"t", "1", ".">> \o symbol.name

\* the ensureSymbolDeclared callback the host passes: a symbol exported from
\* another module's file gets a forward-declare alias, unless it has one
ensureSymbolDeclared(symbol, st) ==
  LET decls == DeclarationsOf(st.checker.symbols[symbol])
      imported ==
        /\ Len(decls) > 0
        /\ "Export" \in decls[1].modifiers
        /\ decls[1].file # NodeFile
        /\ decls[1].sourceFile.isExternalModule
  IN [st EXCEPT !.declared = Append(@, symbol),
                !.alias = IF st.callback = "forwardDeclare" /\ imported /\ symbol \notin DOMAIN @
                          THEN (symbol :> ForwardDeclareName(st.checker.symbols[symbol])) @@ @
                          ELSE @]

\* a prefix selection that is content with one local ambient exported
\* declaration instead of requiring every declaration to be one
maybeGetMangledNamePrefixForSome(symbol, st) ==
  IF ~st.checker.symbols[symbol].hasDeclarations THEN <<>>
  ELSE LET declarations == st.checker.symbols[symbol].declarations
           topLevel == isTopLevelExternal(declarations)
           ambientModuleDeclaration ==
             IF topLevel THEN [found |-> FALSE, name |-> <<>>]
             ELSE getContainingAmbientModuleDeclaration(declarations)
       IN IF ~topLevel /\ ~ambientModuleDeclaration.found THEN <<>>
          ELSE IF /\ ~st.isForExterns
                  /\ ~(\E i \in 1..Len(declarations) :
                         /\ isDeclaredInSameFile(declarations[i])
                         /\ isAmbientDeclaration(declarations[i])
                         /\ hasExportModifier(declarations[i]))
               THEN <<>>
          ELSE LET fileName == IF ambientModuleDeclaration.found
                               THEN ambientModuleDeclaration.name
                               ELSE declarations[1].sourceFile.fileName
               IN moduleNameAsIdentifier(fileName) \o STR_Dot

maybeGetMangledNamePrefix(symbol, st) ==
  IF ~st.checker.symbols[symbol].hasDeclarations THEN <<>>
  ELSE LET declarations == st.checker.symbols[symbol].declarations
           topLevel == isTopLevelExternal(declarations)
           ambientModuleDeclaration ==
             IF topLevel THEN [found |-> FALSE, name |-> <<>>]
             ELSE getContainingAmbientModuleDeclaration(declarations)
       IN IF ~topLevel /\ ~ambientModuleDeclaration.found THEN <<>>
          ELSE IF /\ ~st.isForExterns
                  /\ ~(\A i \in 1..Len(declarations) :
                         /\ isDeclaredInSameFile(declarations[i])
                         /\ isAmbientDeclaration(declarations[i])
                         /\ hasExportModifier(declarations[i]))
               THEN <<>>
          ELSE LET fileName == IF ambientModuleDeclaration.found
                               THEN ambientModuleDeclaration.name
                               ELSE declarations[1].sourceFile.fileName
               IN moduleNameAsIdentifier(fileName) \o STR_Dot

stripClutzNamespace(name) ==
  IF StartsWith(name, STR_clutz) THEN Substring(name, Len(STR_clutz)) ELSE name

\* a lookup that never finds an alias
AliasGetNothing(alias, symbol) == [present |-> FALSE, str |-> <<>>]

\* this.symbolsToAliasedNames.get(symbol), and whether it is truthy
AliasGet(alias, symbol) ==
  IF symbol \in DOMAIN alias THEN [present |-> Len(alias[symbol]) > 0, str |-> alias[symbol]]
  ELSE [present |-> FALSE, str |-> <<>>]

\* a writer that puts the mangled prefix in front of every identifier
WriteIdentifierPrefixingAll(str, identifier, st) ==
  LET symbol == IF "Alias" \in st.checker.symbols[identifier.symbol].flags
                THEN st.checker.symbols[identifier.symbol].aliasedSymbol ELSE identifier.symbol
      alias == AliasGet(st.alias, symbol)
  IN IF alias.present THEN alias.str
     ELSE str \o maybeGetMangledNamePrefix(symbol, st) \o identifier.text

\* the text of an identifier once its alias is looked up: str is the text
\* written so far
WriteIdentifier(str, identifier, st) ==
  LET symbol == IF "Alias" \in st.checker.symbols[identifier.symbol].flags
                THEN st.checker.symbols[identifier.symbol].aliasedSymbol ELSE identifier.symbol
      alias == AliasGet(st.alias, symbol)
  IN IF alias.present THEN alias.str
     ELSE str \o (IF Len(str) = 0 THEN maybeGetMangledNamePrefix(symbol, st) ELSE <<>>)
              \o identifier.text

\* a walk that ends at the first identifier that has an alias
RECURSIVE writeEntityStoppingAtAlias(_, _, _)
writeEntityStoppingAtAlias(name, k, st) ==
  IF k > 1
  THEN IF \E j \in 1..(k - 1) : AliasGet(st.alias, name[j].symbol).present
       THEN writeEntityStoppingAtAlias(name, k - 1, st)
       ELSE WriteIdentifier(writeEntityStoppingAtAlias(name, k - 1, st) \o STR_Dot, name[k], st)
  ELSE WriteIdentifier(<<>>, name[k], st)

\* writeEntityWithSymbols on the qualified name made of name[1..k]
RECURSIVE writeEntityWithSymbols(_, _, _)
writeEntityWithSymbols(name, k, st) ==
  IF k > 1 THEN WriteIdentifier(writeEntityWithSymbols(name, k - 1, st) \o STR_Dot, name[k], st)
  ELSE WriteIdentifier(<<>>, name[k], st)

\* a symbolToString that writes the name first and declares the symbol after
symbolToStringDeclaringLate(sym, st) ==
  LET st1 == IF ~st.isForExterns /\ "TypeParameter" \notin st.checker.symbols[sym].flags
             THEN ensureSymbolDeclared(sym, st) ELSE st
      st2 == [st1 EXCEPT !.named = Append(@, sym)]
      name == st.checker.symbols[sym].entityName
  IN IF ~st.checker.symbols[sym].hasEntityName THEN [defined |-> FALSE, str |-> <<>>, st |-> st2]
     ELSE [defined |-> TRUE,
           str |-> stripClutzNamespace(writeEntityWithSymbols(name, Len(name), st)),
           st |-> st2]

\* [defined, str, st]: undefined when the symbol has no entity name
symbolToString(sym, st) ==
  LET st1 == IF ~st.isForExterns /\ "TypeParameter" \notin st.checker.symbols[sym].flags
             THEN ensureSymbolDeclared(sym, st) ELSE st
      st2 == [st1 EXCEPT !.named = Append(@, sym)]
      name == st.checker.symbols[sym].entityName
  IN IF ~st.checker.symbols[sym].hasEntityName THEN [defined |-> FALSE, str |-> <<>>, st |-> st2]
     ELSE [defined |-> TRUE,
           str |-> stripClutzNamespace(writeEntityWithSymbols(name, Len(name), st2)),
           st |-> st2]

\* `x || '?'` and `if (!name) return '?'`: undefined and '' are falsy
IsFalsy(name) == ~name.defined \/ Len(name.str) = 0

\* '!' + name, where an undefined name is written "undefined"
ConcatName(name) == IF name.defined THEN name.str ELSE STR_undefined

\* a loop that appends `?` to the entry a symbol has instead of setting it
RECURSIVE BlacklistSymbolsAppending(_, _, _)
BlacklistSymbolsAppending(blacklist, decls, k) ==
  IF k = 0 THEN blacklist
  ELSE LET before == BlacklistSymbolsAppending(blacklist, decls, k - 1)
       IN IF decls[k] = NoSymbol THEN before
          ELSE (decls[k] :> ((IF decls[k] \in DOMAIN before THEN before[decls[k]] ELSE <<>>)
                             \o STR_Q)) @@ before

\* blacklistTypeParameters(blacklist, decls): the scope after the call
RECURSIVE BlacklistSymbols(_, _, _)
BlacklistSymbols(blacklist, decls, k) ==
  IF k = 0 THEN blacklist
  ELSE LET before == BlacklistSymbols(blacklist, decls, k - 1)
       IN IF decls[k] = NoSymbol THEN before ELSE (decls[k] :> STR_Q) @@ before

\* a blacklistTypeParameters that stores nothing
blacklistNoTypeParameters(blacklist, hasDecls, decls) == blacklist

\* a blacklistTypeParameters that starts from an empty scope
blacklistTypeParametersDroppingOthers(blacklist, hasDecls, decls) ==
  IF ~hasDecls \/ Len(decls) = 0 THEN blacklist
  ELSE BlacklistSymbols([s \in {} |-> <<>>], decls, Len(decls))

blacklistTypeParameters(blacklist, hasDecls, decls) ==
  IF ~hasDecls \/ Len(decls) = 0 THEN blacklist
  ELSE BlacklistSymbols(blacklist, decls, Len(decls))

\* an add that stores nothing
SeenAddNothing(seen, type) == seen

\* this.seenAnonymousTypes.add(type)
SeenAdd(seen, type) == seen \cup {type}

\* a translate that skips the recursion check
HasSeenNothing(type, st) == FALSE

\* this.seenAnonymousTypes.has(type)
HasSeen(type, st) == type \in st.seen

\* the three facts translate gathers from the declarations of type.symbol
DeclarationFacts(type, st) ==
  LET decls == IF st.checker.types[type].symbol = NoSymbol THEN <<>>
               ELSE DeclarationsOf(st.checker.symbols[st.checker.types[type].symbol])
  IN [isModule |-> \E i \in 1..Len(decls) : decls[i].sourceFile.isExternalModule,
      isAmbient |-> \E i \in 1..Len(decls) :
                      \/ decls[i].sourceFile.isDeclarationFile
                      \/ \E j \in 1..Len(NodeChain(decls[i])) :
                           "Ambient" \in NodeChain(decls[i])[j].modifiers,
      isInNamespace |-> \E i \in 1..Len(decls) :
                          \E j \in 1..Len(NodeChain(decls[i])) :
                            NodeChain(decls[i])[j].kind = "ModuleDeclaration"]

\* a translate without the namespace check
NamespaceCutNever(facts) == FALSE

\* isInNamespace && !isAmbient
NamespaceCut(facts) == facts.isInNamespace /\ ~facts.isAmbient

\* a translate without the externs check
ExternsCutNever(isForExterns, facts) == FALSE

\* this.isForExterns && isModule && !isAmbient
ExternsCut(isForExterns, facts) == isForExterns /\ facts.isModule /\ ~facts.isAmbient

\* a translateUnion that keeps duplicates
UnionStringWithDuplicates(parts) ==
  IF Len(parts) = 1 THEN parts[1]
  ELSE STR_LParen \o Join(parts, STR_Bar) \o STR_RParen

\* parts.filter(first occurrence), then one part alone or "(a|b|...)"
UnionString(parts) ==
  LET distinct == FilterFirst(parts, Len(parts))
  IN IF Len(distinct) = 1 THEN distinct[1]
     ELSE STR_LParen \o Join(distinct, STR_Bar) \o STR_RParen

RECURSIVE translate(_, _)
RECURSIVE translateAll(_, _, _)
RECURSIVE translateObject(_, _)
RECURSIVE translateAnonymousType(_, _)
RECURSIVE translateFields(_, _, _, _)
RECURSIVE signatureToClosure(_, _)
RECURSIVE convertParams(_, _, _, _)

\* types.map(t => this.translate(t)) on types[1..k]: [outs, st]
translateAll(types, k, st) ==
  IF k = 0 THEN [outs |-> <<>>, st |-> st]
  ELSE LET before == translateAll(types, k - 1, st)
       IN IF before.st.err # "none" THEN before
          ELSE LET r == translate(types[k], before.st)
               IN [outs |-> Append(before.outs, r.out), st |-> r.st]

translateUnion(type, st) ==
  LET parts == translateAll(st.checker.types[type].types, Len(st.checker.types[type].types), st)
  IN IF parts.st.err # "none" THEN Throws(parts.st.err, parts.st)
     ELSE Returns(UnionString(parts.outs), parts.st)

\* an enum literal translation that names the literal's own symbol
translateEnumLiteralOfMember(type, st) ==
  LET enumLiteralBaseType == st.checker.types[type].baseTypeOfLiteral
      baseSymbol == st.checker.types[enumLiteralBaseType].symbol
  IN IF baseSymbol = NoSymbol THEN Returns(STR_Q, st)
     ELSE IF enumLiteralBaseType = type /\ st.checker.symbols[baseSymbol].parent = NoSymbol
          THEN Returns(STR_Q, st)
     ELSE LET name == symbolToString(st.checker.types[type].symbol, st)
          IN IF IsFalsy(name) THEN Returns(STR_Q, name.st)
             ELSE Returns(STR_Bang \o name.str, name.st)

translateEnumLiteral(type, st) ==
  LET enumLiteralBaseType == st.checker.types[type].baseTypeOfLiteral
      baseSymbol == st.checker.types[enumLiteralBaseType].symbol
  IN IF baseSymbol = NoSymbol THEN Returns(STR_Q, st)
     ELSE IF enumLiteralBaseType = type /\ st.checker.symbols[baseSymbol].parent = NoSymbol
          THEN Returns(STR_Q, st)
     ELSE LET symbol == IF enumLiteralBaseType = type THEN st.checker.symbols[baseSymbol].parent
                        ELSE baseSymbol
              name == symbolToString(symbol, st)
          IN IF IsFalsy(name) THEN Returns(STR_Q, name.st)
             ELSE Returns(STR_Bang \o name.str, name.st)

\* the `typeStr === '?'` test of the Reference branch
ReferenceIsUnknown(typeStr) == typeStr = STR_Q

\* a type argument list joined by a comma alone
TypeArgumentListNoSpace(params) == STR_Lt \o Join(params, <<",">>) \o STR_Gt

\* `<` + params.join(', ') + `>`
TypeArgumentList(params) == STR_Lt \o Join(params, STR_CommaSpace) \o STR_Gt

translateReference(type, st) ==
  LET referenceType == st.checker.types[type]
  IN IF "Tuple" \in st.checker.types[referenceType.target].objectFlags THEN Returns(STR_BangArrayQ, st)
     ELSE IF referenceType.target = type THEN Throws("reference loop", st)
     ELSE LET target == translate(referenceType.target, st)
          IN IF target.st.err # "none" THEN target
             ELSE IF ReferenceIsUnknown(target.out) THEN Returns(STR_Q, target.st)
             ELSE IF ~referenceType.hasTypeArguments THEN target
             ELSE LET params == translateAll(referenceType.typeArguments,
                                             Len(referenceType.typeArguments), target.st)
                  IN IF params.st.err # "none" THEN Throws(params.st.err, params.st)
                     ELSE Returns(target.out \o TypeArgumentList(params.outs), params.st)

translateObject(type, st) ==
  LET T == st.checker.types[type]
  IN IF T.symbol # NoSymbol /\ isBlacklisted(st.pathBlackList, st.checker.symbols[T.symbol]) THEN Returns(STR_Q, st)
     ELSE IF "Class" \in T.objectFlags THEN
       IF T.symbol = NoSymbol THEN Returns(STR_Q, st)
       ELSE LET name == symbolToString(T.symbol, st)
            IN IF IsFalsy(name) THEN Returns(STR_Q, name.st)
               ELSE Returns(STR_Bang \o name.str, name.st)
     ELSE IF "Interface" \in T.objectFlags THEN
       IF T.symbol = NoSymbol THEN Returns(STR_Q, st)
       ELSE IF st.checker.symbols[T.symbol].flags \cap SymbolFlagsValue # {} /\ ~isClosureProvidedType(st.checker.symbols[T.symbol])
            THEN Returns(STR_Q, st)
       ELSE LET name == symbolToString(T.symbol, st)
            IN Returns(STR_Bang \o ConcatName(name), name.st)
     ELSE IF "Reference" \in T.objectFlags THEN translateReference(type, st)
     ELSE IF "Anonymous" \in T.objectFlags THEN
       IF T.symbol = NoSymbol THEN Returns(STR_Q, st)
       ELSE IF st.checker.symbols[T.symbol].flags \cap {"Function", "Method"} # {} THEN
         IF Len(T.callSignatures) = 1 THEN signatureToClosure(T.callSignatures[1], st)
         ELSE Returns(STR_Q, st)
       ELSE translateAnonymousType(type, st)
     ELSE Returns(STR_Q, st)

\* the loop over type.symbol.members.keys(), on members[1..k]:
\* [callable, indexable, fields, st]
translateFields(members, k, st, acc) ==
  IF k > Len(members) \/ st.err # "none" THEN [acc EXCEPT !.st = st]
  ELSE LET field == members[k].name
       IN IF field = STR_call
          THEN translateFields(members, k + 1, st, [acc EXCEPT !.callable = TRUE])
          ELSE IF field = STR_index
          THEN translateFields(members, k + 1, st, [acc EXCEPT !.indexable = TRUE])
          ELSE IF ~isValidClosurePropertyName(field)
          THEN translateFields(members, k + 1, st, acc)
          ELSE LET memberType == translate(members[k].type, st)
               IN translateFields(members, k + 1, memberType.st,
                    [acc EXCEPT !.fields = Append(@, field \o STR_ColonSpace \o memberType.out)])

\* a parameter text that starts with a separator even without parameters
ConstructorParamsAlways(params) == STR_CommaSpace \o Join(params, STR_CommaSpace)

\* params.length ? (', ' + params.join(', ')) : ''
ConstructorParams(params) ==
  IF Len(params) > 0 THEN STR_CommaSpace \o Join(params, STR_CommaSpace) ELSE <<>>

translateAnonymousType(type, st0) ==
  LET T == st0.checker.types[type]
      st == [st0 EXCEPT !.seen = SeenAdd(@, type), !.anon = @ \cup {type}]
  IN IF T.symbol = NoSymbol \/ ~st.checker.symbols[T.symbol].hasMembers THEN Returns(STR_Q, st)
     ELSE IF Len(T.constructSignatures) > 0 THEN
       LET ctor == st.checker.signatures[T.constructSignatures[1]]
       IN IF ctor.declaration = "none" THEN Returns(STR_Q, st)
          ELSE IF ctor.declaration = "JSDocSignature" THEN Returns(STR_Q, st)
          ELSE LET st1 == [st EXCEPT !.alias = blacklistTypeParameters(@, ctor.hasTypeParameters,
                                                                       ctor.typeParameters),
                                        !.sigs = @ \cup {T.constructSignatures[1]}]
                   params == convertParams(T.constructSignatures[1], ctor.paramDecls, 1,
                                           [outs |-> <<>>, st |-> st1])
               IN IF params.st.err # "none" THEN Throws(params.st.err, params.st)
                  ELSE LET paramsStr == ConstructorParams(params.outs)
                           constructedType == translate(ctor.returnType, params.st)
                       IN IF constructedType.st.err # "none" THEN constructedType
                          ELSE Returns(STR_functionNew \o constructedType.out \o STR_RParen
                                         \o paramsStr \o STR_RParenColonQ,
                                       constructedType.st)
     ELSE LET m == translateFields(st.checker.symbols[T.symbol].members, 1, st,
                     [callable |-> FALSE, indexable |-> FALSE, fields |-> <<>>, st |-> st])
          IN IF m.st.err # "none" THEN Throws(m.st.err, m.st)
             ELSE IF Len(m.fields) = 0 /\ m.callable /\ ~m.indexable /\ Len(T.callSignatures) = 1
               THEN signatureToClosure(T.callSignatures[1], m.st)
             ELSE IF Len(m.fields) = 0 /\ m.indexable /\ ~m.callable THEN
               LET keyType == IF T.stringIndexType # NoType THEN STR_string ELSE STR_number
                   valType == IF T.stringIndexType # NoType THEN T.stringIndexType
                              ELSE T.numberIndexType
               IN IF valType = NoType THEN Returns(STR_BangObjectQQ, m.st)
                  ELSE LET val == translate(valType, m.st)
                       IN IF val.st.err # "none" THEN val
                          ELSE Returns(STR_BangObjectLt \o keyType \o STR_Comma \o val.out \o STR_Gt,
                                       val.st)
             ELSE IF Len(m.fields) = 0 /\ ~m.callable /\ ~m.indexable THEN Returns(STR_Star, m.st)
             ELSE IF ~m.callable /\ ~m.indexable
               THEN Returns(STR_LBrace \o Join(m.fields, STR_CommaSpace) \o STR_RBrace, m.st)
             ELSE Returns(STR_Q, m.st)

\* a signatureToClosure that writes no separator after the this type
signatureToClosureThisUnseparated(sig, st) ==
  LET S == st.checker.signatures[sig]
  IN IF S.declaration = "none" THEN Returns(STR_Function, st)
     ELSE IF S.declaration = "JSDocSignature" THEN Returns(STR_Function, st)
     ELSE
       LET st1 == [st EXCEPT !.alias = blacklistTypeParameters(@, S.hasTypeParameters,
                                                                S.typeParameters),
                                 !.sigs = @ \cup {sig}]
           hasThis == Len(S.paramDecls) > 0 /\ S.paramDecls[1].name = STR_this
           thisType == IF hasThis /\ S.paramDecls[1].hasType
                       THEN translate(S.paramDecls[1].type, st1)
                       ELSE Returns(<<>>, st1)
           thisStr == IF hasThis /\ S.paramDecls[1].hasType
                      THEN STR_thisColon \o thisType.out \o STR_RParen
                      ELSE <<>>
           paramDecls == IF hasThis THEN Tail(S.paramDecls) ELSE S.paramDecls
       IN IF thisType.st.err # "none" THEN thisType
          ELSE LET params == convertParams(sig, paramDecls, 1, [outs |-> <<>>, st |-> thisType.st])
               IN IF params.st.err # "none" THEN Throws(params.st.err, params.st)
                  ELSE LET retType == translate(S.returnType, params.st)
                           typeStr == STR_functionLParen \o thisStr
                                        \o Join(params.outs, STR_CommaSpace) \o STR_RParen
                       IN IF retType.st.err # "none" THEN retType
                          ELSE Returns(typeStr \o (IF Len(retType.out) > 0
                                                   THEN STR_ColonSpace \o retType.out ELSE <<>>),
                                       retType.st)

signatureToClosure(sig, st) ==
  LET S == st.checker.signatures[sig]
  IN IF S.declaration = "none" THEN Returns(STR_Function, st)
     ELSE IF S.declaration = "JSDocSignature" THEN Returns(STR_Function, st)
     ELSE
       LET st1 == [st EXCEPT !.alias = blacklistTypeParameters(@, S.hasTypeParameters,
                                                                S.typeParameters),
                                 !.sigs = @ \cup {sig}]
           hasThis == Len(S.paramDecls) > 0 /\ S.paramDecls[1].name = STR_this
           thisType == IF hasThis /\ S.paramDecls[1].hasType
                       THEN translate(S.paramDecls[1].type, st1)
                       ELSE Returns(<<>>, st1)
           thisStr == IF hasThis /\ S.paramDecls[1].hasType
                      THEN STR_thisColon \o thisType.out \o STR_RParen
                           \o (IF Len(S.paramDecls) > 1 THEN STR_CommaSpace ELSE <<>>)
                      ELSE <<>>
           paramDecls == IF hasThis THEN Tail(S.paramDecls) ELSE S.paramDecls
       IN IF thisType.st.err # "none" THEN thisType
          ELSE LET params == convertParams(sig, paramDecls, 1, [outs |-> <<>>, st |-> thisType.st])
               IN IF params.st.err # "none" THEN Throws(params.st.err, params.st)
                  ELSE LET retType == translate(S.returnType, params.st)
                           typeStr == STR_functionLParen \o thisStr
                                        \o Join(params.outs, STR_CommaSpace) \o STR_RParen
                       IN IF retType.st.err # "none" THEN retType
                          ELSE Returns(typeStr \o (IF Len(retType.out) > 0
                                                   THEN STR_ColonSpace \o retType.out ELSE <<>>),
                                       retType.st)

\* the loop of convertParams from index i on: acc = [outs, st]
convertParams(sig, paramDecls, i, acc) ==
  IF i > Len(acc.st.checker.signatures[sig].parameters) \/ acc.st.err # "none" THEN acc
  ELSE IF i > Len(paramDecls) THEN [acc EXCEPT !.st.err = "TypeError"]
  ELSE
    LET paramDecl == paramDecls[i]
        optional == paramDecl.questionToken
        varArgs == paramDecl.dotDotDotToken
        paramType == acc.st.checker.types[acc.st.checker.signatures[sig].parameters[i]]
    IN IF varArgs /\ "Object" \notin paramType.flags
         THEN convertParams(sig, paramDecls, i + 1, [acc EXCEPT !.outs = Append(@, STR_BangArrayQ)])
       ELSE IF varArgs /\ "Reference" \notin paramType.objectFlags
         THEN convertParams(sig, paramDecls, i + 1, [acc EXCEPT !.outs = Append(@, STR_BangArrayQ)])
       ELSE IF varArgs /\ ~paramType.hasTypeArguments
         THEN convertParams(sig, paramDecls, i + 1, acc)
       ELSE IF varArgs /\ Len(paramType.typeArguments) = 0
         THEN [acc EXCEPT !.st.err = "TypeError"]
       ELSE
         LET r == translate(IF varArgs THEN paramType.typeArguments[1]
                            ELSE acc.st.checker.signatures[sig].parameters[i], acc.st)
             typeStr == (IF varArgs THEN STR_DotDotDot ELSE <<>>) \o r.out
                          \o (IF optional THEN STR_Eq ELSE <<>>)
         IN IF r.st.err # "none" THEN [acc EXCEPT !.st = r.st]
            ELSE convertParams(sig, paramDecls, i + 1, [outs |-> Append(acc.outs, typeStr), st |-> r.st])

\* the early exits and the switch of translate
translateSwitch(type, st) ==
  LET T == st.checker.types[type]
      facts == DeclarationFacts(type, st)
      masked == T.flags \cap PublicTypeFlags
  IN IF T.flags = {"NonPrimitive"} THEN Returns(STR_BangObject, st)
     ELSE IF HasSeen(type, st) THEN Returns(STR_Q, st)
     ELSE IF NamespaceCut(facts) THEN Returns(STR_Q, st)
     ELSE IF ExternsCut(st.isForExterns, facts) THEN Returns(STR_Q, st)
     ELSE IF masked = {"Any"} THEN Returns(STR_Q, st)
     ELSE IF masked = {"Unknown"} THEN Returns(STR_Star, st)
     ELSE IF masked = {"String"} \/ masked = {"StringLiteral"} THEN Returns(STR_string, st)
     ELSE IF masked = {"Number"} \/ masked = {"NumberLiteral"} THEN Returns(STR_number, st)
     ELSE IF masked = {"Boolean"} \/ masked = {"BooleanLiteral"} THEN Returns(STR_boolean, st)
     ELSE IF masked = {"Enum"} THEN
       IF T.symbol = NoSymbol THEN Returns(STR_Q, st)
       ELSE LET name == symbolToString(T.symbol, st)
            IN IF IsFalsy(name) THEN Returns(STR_Q, name.st) ELSE Returns(name.str, name.st)
     ELSE IF masked = {"ESSymbol"} \/ masked = {"UniqueESSymbol"} THEN Returns(STR_symbol, st)
     ELSE IF masked = {"Void"} THEN Returns(STR_void, st)
     ELSE IF masked = {"Undefined"} THEN Returns(STR_undefined, st)
     ELSE IF masked = {"BigInt"} THEN Returns(STR_bigintPlaceholder, st)
     ELSE IF masked = {"Null"} THEN Returns(STR_null, st)
     ELSE IF masked = {"Never"} THEN Returns(STR_Q, st)
     ELSE IF masked = {"TypeParameter"} THEN
       IF T.symbol = NoSymbol THEN Returns(STR_Q, st)
       ELSE LET prefix == IF "TypeParameter" \notin st.checker.symbols[T.symbol].flags THEN STR_Bang ELSE <<>>
                name == symbolToString(T.symbol, st)
            IN IF IsFalsy(name) THEN Returns(STR_Q, name.st)
               ELSE Returns(prefix \o name.str, name.st)
     ELSE IF masked = {"Object"} THEN translateObject(type, st)
     ELSE IF masked = {"Union"} THEN translateUnion(type, st)
     ELSE IF masked = {"Conditional"} \/ masked = {"Substitution"} THEN Returns(STR_Q, st)
     ELSE IF masked = {"Intersection"} \/ masked = {"Index"} \/ masked = {"IndexedAccess"}
       THEN Returns(STR_Q, st)
     ELSE IF "Union" \in T.flags THEN translateUnion(type, st)
     ELSE IF "EnumLiteral" \in T.flags THEN translateEnumLiteral(type, st)
     ELSE Throws("unknown type flags", st)

\* translate(type).  A call entered with the type and state of a call that is
\* still on the stack repeats that call and never returns: the JavaScript
\* engine ends it with a RangeError (maximum call stack size exceeded)
translate(type, st) ==
  LET frame == <<type, st.seen, st.alias>>
  IN IF frame \in st.stack THEN Throws("RangeError", st)
     ELSE LET r == translateSwitch(type, [st EXCEPT !.stack = @ \cup {frame}])
          IN [out |-> r.out,
              st |-> [r.st EXCEPT !.stack = st.stack,
                                  !.log = Append(@, [type |-> type, out |-> r.out,
                                                     err |-> r.st.err,
                                                     depth |-> Cardinality(st.stack),
                                                     seen |-> type \in st.seen,
                                                     sigs |-> st.sigs,
                                                     anon |-> st.anon])]]

(***************************************************************************)
(* The state machine.  One translator instance is alive at a time (the     *)
(* pipeline drives translations serially); constructing the next instance  *)
(* discards it.  The alias scope and the path blacklist are the ones the   *)
(* host passes to every instance it constructs for the file.               *)
(***************************************************************************)
VARIABLES
  isForExterns,           \* this.isForExterns
  seenAnonymousTypes,     \* this.seenAnonymousTypes
  symbolsToAliasedNames,  \* the alias scope shared by the instances
  pathBlackList,          \* this.pathBlackList, normalized by the constructor
  blacklistedTypeParameters,  \* history: the type parameter symbols of the
                          \* signatures the translators have translated so far
  calls,                  \* the number of calls made on the instance
  last                    \* the call that has returned to the host and what it
                          \* did; NoCall once the host has taken the result

vars == <<isForExterns, seenAnonymousTypes, symbolsToAliasedNames, pathBlackList,
          blacklistedTypeParameters, calls, last>>

\* an instance is discarded after this many calls
MaxCalls == 2

EmptyScope == [s \in {} |-> <<>>]

\* the alias scopes a host hands to the constructor: none, or the names of
\* imports together with blacklisted symbols
InitialScopes ==
  { EmptyScope,
    [ sImp   |-> <<"t", "1", ".", "I", "m", "p">>,
      sIface |-> STR_clutz \o <<"I">>,
      sAnonClass |-> <<"t", "1", ".", "K">>,
      sMd    |-> <<"t", "1", ".", "D">>,
      sDns   |-> <<"t", "1", ".", "d", "n", "s">>,
      sQi    |-> STR_Q,
      sQc    |-> STR_Q,
      sAlias |-> <<"n", "o">> ] }

\* the pathBlackList arguments a host passes: undefined, or a set of paths
RawPathBlackLists ==
  { [defined |-> FALSE, paths |-> {}],
    [defined |-> TRUE, paths |-> {<<"/", "x", "/", ".", "/", "b", "l", ".", "t", "s">>}] }

\* the constructor's normalization of pathBlackList
NormalizedBlackList(raw) ==
  IF raw.defined THEN [defined |-> TRUE, paths |-> {PathNormalize(p) : p \in raw.paths}]
  ELSE raw

\* the symbols of the type parameters the signatures in sigs declare
TypeParametersOf(sigs) ==
  {p \in SymbolIds : \E sig \in sigs : \E i \in 1..Len(Signatures[sig].typeParameters) :
                       Signatures[sig].typeParameters[i] = p}

\* the types, symbols and signatures of the program, by identifier
TypeChecker == [types |-> Types, symbols |-> Symbols, signatures |-> Signatures]

\* the instance and scope a call starts from
StateOf(callback) ==
  [checker |-> TypeChecker, isForExterns |-> isForExterns, pathBlackList |-> pathBlackList, callback |-> callback,
   seen |-> seenAnonymousTypes, alias |-> symbolsToAliasedNames,
   log |-> <<>>, declared |-> <<>>, named |-> <<>>, sigs |-> {}, anon |-> {}, stack |-> {},
   err |-> "none"]

NoCall ==
  [op |-> "none", arg |-> NoType, out |-> <<>>, defined |-> TRUE, err |-> "none",
   seenBefore |-> {}, aliasBefore |-> EmptyScope, blacklistedBefore |-> {},
   log |-> <<>>, declared |-> <<>>, named |-> <<>>, anon |-> {}, bool |-> FALSE]

CallRecord(op, arg, out, defined, st) ==
  [op |-> op, arg |-> arg, out |-> out, defined |-> defined, err |-> st.err,
   seenBefore |-> seenAnonymousTypes, aliasBefore |-> symbolsToAliasedNames,
   blacklistedBefore |-> blacklistedTypeParameters,
   log |-> st.log, declared |-> st.declared, named |-> st.named, anon |-> st.anon, bool |-> FALSE]

Init ==
  /\ isForExterns = FALSE
  /\ seenAnonymousTypes = {}
  /\ symbolsToAliasedNames \in InitialScopes
  /\ pathBlackList \in {NormalizedBlackList(raw) : raw \in RawPathBlackLists}
  /\ blacklistedTypeParameters = {}
  /\ calls = 0
  /\ last = NoCall

\* new TypeTranslator(host, typeChecker, node, pathBlackList, symbolsToAliasedNames,
\* ensureSymbolDeclared) for the same file
NewTranslator ==
  /\ last = NoCall
  /\ calls > 0
  /\ isForExterns' = FALSE
  /\ seenAnonymousTypes' = {}
  /\ calls' = 0
  /\ UNCHANGED <<symbolsToAliasedNames, pathBlackList, blacklistedTypeParameters, last>>

\* typeTranslator.isForExterns = true, as the externs generator does
SetForExterns ==
  /\ last = NoCall
  /\ calls = 0
  /\ ~isForExterns
  /\ isForExterns' = TRUE
  /\ UNCHANGED <<seenAnonymousTypes, symbolsToAliasedNames, pathBlackList,
                 blacklistedTypeParameters, calls, last>>

\* the host takes the result of the call that returned
TakeResult ==
  /\ last # NoCall
  /\ last' = NoCall
  /\ UNCHANGED <<isForExterns, seenAnonymousTypes, symbolsToAliasedNames, pathBlackList,
                 blacklistedTypeParameters, calls>>

\* a call can be made on the instance
CanCall == last = NoCall /\ calls < MaxCalls

\* the call op(arg) returns, or throws, with result r = [out, defined, st]
CallReturns(op, arg, r) ==
  /\ seenAnonymousTypes' = r.st.seen
  /\ symbolsToAliasedNames' = r.st.alias
  /\ blacklistedTypeParameters' = blacklistedTypeParameters \cup TypeParametersOf(r.st.sigs)
  /\ last' = CallRecord(op, arg, r.out, r.defined, r.st)
  /\ calls' = calls + 1
  /\ UNCHANGED <<isForExterns, pathBlackList>>

\* the result of translate as a call result: translate always yields a string
TranslateResult(r) == [out |-> r.out, defined |-> TRUE, st |-> r.st]

\* the result of symbolToString as a call result
SymbolToStringResult(r) == [out |-> r.str, defined |-> r.defined, st |-> r.st]

\* translate(type)
Translate(type) ==
  /\ CanCall
  /\ CallReturns("translate", type,
                 TranslateResult(translate(type, StateOf("forwardDeclare"))))

\* symbolToString(sym)
SymbolToString(sym) ==
  /\ CanCall
  /\ CallReturns("symbolToString", sym,
                 SymbolToStringResult(symbolToString(sym, StateOf("forwardDeclare"))))

Next ==
  \/ NewTranslator
  \/ SetForExterns
  \/ TakeResult
  \/ \E type \in GeneralTypeIds : Translate(type)
  \/ \E sym \in GeneralSymbolIds : SymbolToString(sym)

Spec == Init /\ [][Next]_vars

(***************************************************************************)
(* The other public methods of the instance, called by a host on the same  *)
(* state: maybeGetMangledNamePrefix, blacklistTypeParameters and           *)
(* isBlackListed.                                                          *)
(***************************************************************************)
\* the type parameter declarations a host passes to blacklistTypeParameters:
\* undefined, or a list holding for each declaration the symbol
\* typeChecker.getSymbolAtLocation(tpd.name) gives (NoSymbol when it gives none)
TypeParameterDeclarations ==
  { [hasDecls |-> FALSE, decls |-> <<>>],
    [hasDecls |-> TRUE, decls |-> <<>>],
    [hasDecls |-> TRUE, decls |-> <<"sT">>],
    [hasDecls |-> TRUE, decls |-> <<"sU", "sT">>],
    [hasDecls |-> TRUE, decls |-> <<NoSymbol, "sImp">>],
    [hasDecls |-> TRUE, decls |-> <<"sQi", "sT", "sQi">>] }

\* the result of maybeGetMangledNamePrefix as a call result: the instance is
\* left as it was
PrefixResult(prefix, st) == [out |-> prefix, defined |-> TRUE, st |-> st]

\* the result of blacklistTypeParameters as a call result: nothing is returned,
\* the scope is mutated
BlacklistResult(blacklist, st) ==
  [out |-> <<>>, defined |-> FALSE, st |-> [st EXCEPT !.alias = blacklist]]

\* maybeGetMangledNamePrefix(symbol)
MaybeGetMangledNamePrefix(sym) ==
  /\ CanCall
  /\ CallReturns("maybeGetMangledNamePrefix", sym,
                 PrefixResult(maybeGetMangledNamePrefix(sym, StateOf("forwardDeclare")),
                              StateOf("forwardDeclare")))

\* blacklistTypeParameters(this.symbolsToAliasedNames, decls)
BlacklistTypeParameters(tpds) ==
  /\ CanCall
  /\ CallReturns("blacklistTypeParameters", tpds,
                 BlacklistResult(blacklistTypeParameters(symbolsToAliasedNames, tpds.hasDecls,
                                                         tpds.decls),
                                 StateOf("forwardDeclare")))

\* the call op(arg) returns the boolean b: the instance and the scope are left
\* as they were
CallReturnsBoolean(op, arg, b, st) ==
  /\ last' = [CallRecord(op, arg, <<>>, TRUE, st) EXCEPT !.bool = b]
  /\ calls' = calls + 1
  /\ UNCHANGED <<isForExterns, seenAnonymousTypes, symbolsToAliasedNames, pathBlackList,
                 blacklistedTypeParameters>>

\* isBlackListed(symbol)
IsBlackListed(sym) ==
  /\ CanCall
  /\ CallReturnsBoolean("isBlackListed", sym,
                        isBlackListed(sym, StateOf("forwardDeclare")),
                        StateOf("forwardDeclare"))

NextMethods ==
  \/ NewTranslator
  \/ SetForExterns
  \/ TakeResult
  \/ \E sym \in GeneralSymbolIds : MaybeGetMangledNamePrefix(sym)
  \/ \E tpds \in TypeParameterDeclarations : BlacklistTypeParameters(tpds)
  \/ \E sym \in SymbolIds : IsBlackListed(sym)

SpecMethods == Init /\ [][NextMethods]_vars

\* the host translating the structural cases
NextShapes ==
  \/ NewTranslator
  \/ SetForExterns
  \/ TakeResult
  \/ \E type \in ShapeTypeIds : Translate(type)

SpecShapes == Init /\ [][NextShapes]_vars

\* the host translating the types of declared functions
NextSignatures ==
  \/ NewTranslator
  \/ SetForExterns
  \/ TakeResult
  \/ \E type \in FunctionTypeIds : Translate(type)

SpecSignatures == Init /\ [][NextSignatures]_vars

(***************************************************************************)
(* Properties.  last is the call that has just returned; last.log lists    *)
(* the translate calls made during it, each with its result, its nesting   *)
(* depth, whether its type was in seenAnonymousTypes when it was entered,  *)
(* and the signatures translated and the types translateAnonymousType was  *)
(* entered with before it during the call.                                 *)
(***************************************************************************)

\* C1: a call translate(T) on a fresh translator instance terminates, whatever
\* cycles the graph of types has; it never recurses forever.
C1_TranslateTerminates ==
  (last.op = "translate" /\ calls = 1) => last.err # "RangeError"

\* C2: the substring `?<` does not appear in translate(T), whatever the
\* reference target or the alias of its symbol resolves to.
C2_UnknownNeverParameterized ==
  last.op = "translate" => ~Includes(last.out, STR_Q \o STR_Lt)

\* C3: a translate call entered with a type that is in seenAnonymousTypes
\* returns `?` and makes no nested translate call; made by the host, such a
\* call names no symbol and leaves the instance and the alias scope as they were.
C3_SeenTypeIsUnknown ==
  /\ \A i \in 1..Len(last.log) :
       last.log[i].seen =>
         /\ last.log[i].out = STR_Q
         /\ last.log[i].err = "none"
         /\ (i > 1 => last.log[i - 1].depth <= last.log[i].depth)
  /\ (last.op = "translate" /\ last.arg \in last.seenBefore) =>
       /\ Len(last.log) = 1
       /\ last.named = <<>>
       /\ last.declared = <<>>
       /\ seenAnonymousTypes = last.seenBefore
       /\ symbolsToAliasedNames = last.aliasBefore

\* C3 happens: an anonymous type that has itself as a member type is
\* translated by a fresh instance, and the member is emitted as `?`.
C3_Witness ==
  /\ last.op = "translate" /\ last.arg = "tAnonSelf" /\ last.seenBefore = {}
  /\ \E i \in 1..Len(last.log) :
       /\ last.log[i].type = "tAnonSelf" /\ last.log[i].seen
       /\ last.log[i].depth = 1 /\ last.log[i].out = STR_Q
  /\ Includes(last.out, <<"s", "e", "l", "f", ":", " ", "?">>)

\* C4 as the specification states it: for every symbol S the alias scope maps
\* to A, symbolToString(S) returns exactly A.
C4_AliasVerbatim ==
  (last.op = "symbolToString" /\ last.arg \in DOMAIN last.aliasBefore) =>
    last.defined /\ last.out = last.aliasBefore[last.arg]

\* C4, amended: the scope is consulted for the symbol R that S stands for: S
\* itself, or for an import alias S (flag Alias) the symbol it aliases.  For
\* every symbol S that has an entity name and whose R the alias scope maps to
\* a non-empty A, symbolToString(S) returns A without a leading clutz
\* namespace, and A itself when A has none: no qualifier, no mangled prefix.
\* An entry the scope holds for an import alias S itself is not used: when R
\* has no alias, the result is the name of S behind the mangled prefix of R.
\* For a symbol without an entity name it returns undefined.
C4_AliasWithoutClutzNamespace ==
  last.op = "symbolToString" =>
    LET S == Symbols[last.arg]
        isImportAlias == "Alias" \in S.flags
        R == IF isImportAlias THEN S.aliasedSymbol ELSE last.arg
        aliased == R \in DOMAIN last.aliasBefore /\ Len(last.aliasBefore[R]) > 0
        n == Len(STR_clutz)
        Stripped(A) == IF Len(A) >= n /\ \A i \in 1..n : A[i] = STR_clutz[i]
                       THEN [i \in 1..(Len(A) - n) |-> A[i + n]]
                       ELSE A
        ByScope ==
          /\ aliased =>
                IF ~S.hasEntityName THEN ~last.defined
                ELSE last.defined /\ last.out = Stripped(last.aliasBefore[R])
          /\ (isImportAlias /\ ~aliased /\ R \notin DOMAIN symbolsToAliasedNames) =>
                /\ last.defined
                /\ last.out = maybeGetMangledNamePrefix(R, StateOf("forwardDeclare")) \o S.name
    IN ByScope

\* C4 happens: symbolToString is called on an interface whose alias carries
\* the clutz namespace, and the alias comes back without it.
C4_Witness ==
  /\ last.op = "symbolToString" /\ last.arg = "sIface"
  /\ "sIface" \in DOMAIN last.aliasBefore
  /\ StartsWith(last.aliasBefore["sIface"], STR_clutz)
  /\ last.out = <<"I">>

\* C5: translate(T) is `?` for every type T whose symbol has all its
\* declarations in files of the path blacklist, whatever the kind of T.
C5_BlacklistedSymbolIsUnknown ==
  (/\ last.op = "translate"
   /\ last.err = "none"
   /\ Types[last.arg].symbol # NoSymbol
   /\ isBlacklisted(pathBlackList, Symbols[Types[last.arg].symbol])) => last.out = STR_Q

\* C6: in externs mode every type reached by a translation, at any depth,
\* whose symbol has declarations that are all non-ambient and in external
\* module files is emitted as `?`, and no such symbol is named in the result.
C6_ExternsCutsModuleTypes ==
  LET NonAmbientModuleSymbol(S) ==
        /\ Symbols[S].hasDeclarations
        /\ Len(Symbols[S].declarations) > 0
        /\ \A i \in 1..Len(Symbols[S].declarations) :
             LET d == Symbols[S].declarations[i]
             IN /\ SourceFiles[d.file].isExternalModule
                /\ ~SourceFiles[d.file].isDeclarationFile
                /\ "Ambient" \notin d.modifiers
                /\ \A j \in 1..Len(d.parents) : "Ambient" \notin d.parents[j].modifiers
  IN (isForExterns /\ last.op = "translate") =>
       /\ \A i \in 1..Len(last.log) :
            (/\ Types[last.log[i].type].symbol # NoSymbol
             /\ NonAmbientModuleSymbol(Types[last.log[i].type].symbol)
             /\ last.log[i].err = "none") => last.log[i].out = STR_Q
       /\ \A i \in 1..Len(last.named) :
            \A k \in 1..Len(Symbols[last.named[i]].entityName) :
              ~NonAmbientModuleSymbol(Symbols[last.named[i]].entityName[k].symbol)

\* C6 happens: in externs mode an index signature's value type is a class of
\* the module being compiled, and it is emitted as `?` inside the result.
C6_Witness ==
  /\ isForExterns /\ last.op = "translate" /\ last.arg = "tIndexS"
  /\ \E i \in 1..Len(last.log) :
       /\ last.log[i].type = "tFoo" /\ last.log[i].depth = 1 /\ last.log[i].out = STR_Q
  /\ last.out = STR_BangObjectLt \o STR_string \o STR_Comma \o STR_Q \o STR_Gt

\* C7: a type whose symbol the alias scope maps to `?` translates to exactly
\* `?`, and no result contains `!?`.
C7_QuestionAliasIsBareUnknown ==
  last.op = "translate" =>
    /\ ~Includes(last.out, STR_Bang \o STR_Q)
    /\ (/\ last.err = "none"
        /\ Types[last.arg].symbol \in DOMAIN last.aliasBefore
        /\ last.aliasBefore[Types[last.arg].symbol] = STR_Q) => last.out = STR_Q

\* C8: the translation of a union is made of the translations of its members
\* in member order, exact duplicates removed keeping the first; one distinct
\* string stands alone, several are joined by `|` inside parentheses.
C8_UnionOfMembers ==
  LET Expected(parts) ==
        LET first == {n \in 1..Len(parts) : \A m \in 1..(n - 1) : parts[m] # parts[n]}
            nth(k) == CHOOSE n \in first : Cardinality({m \in first : m <= n}) = k
            bars[k \in 0..Cardinality(first)] ==
              IF k = 0 THEN <<>>
              ELSE IF k = 1 THEN parts[nth(1)]
              ELSE bars[k - 1] \o <<"|">> \o parts[nth(k)]
        IN IF Cardinality(first) = 1 THEN parts[nth(1)]
           ELSE <<"(">> \o bars[Cardinality(first)] \o <<")">>
      Members(i) ==
        LET e == last.log[i]
            idx == {j \in 1..(i - 1) :
                      /\ last.log[j].depth = e.depth + 1
                      /\ \A k \in (j + 1)..(i - 1) : last.log[k].depth > e.depth}
        IN [n \in 1..Cardinality(idx) |->
              last.log[CHOOSE j \in idx : Cardinality({m \in idx : m <= j}) = n]]
      Before ==
        [StateOf("forwardDeclare") EXCEPT !.seen = last.seenBefore,
                                          !.alias = last.aliasBefore]
  IN /\ (/\ last.op = "translate" /\ last.err = "none"
         /\ "Union" \in Types[last.arg].flags) =>
           LET types == Types[last.arg].types
           IN last.out = Expected(translateAll(types, Len(types), Before).outs)
     /\ \A i \in 1..Len(last.log) :
          (/\ "Union" \in Types[last.log[i].type].flags
           /\ last.log[i].err = "none"
           /\ Len(Members(i)) > 0) =>
            /\ [n \in 1..Len(Members(i)) |-> Members(i)[n].type] = Types[last.log[i].type].types
            /\ last.log[i].out = Expected([n \in 1..Len(Members(i)) |-> Members(i)[n].out])

\* C8 happens: the union boolean | true is translated, its three members all
\* give boolean, and the result is boolean without parentheses.
C8_Witness ==
  /\ last.op = "translate" /\ last.arg = "tBoolTrue" /\ last.err = "none"
  /\ Len(last.log) > 3
  /\ last.out = STR_boolean

\* C9: translate raises an error only for a reference type whose target is
\* itself and for kind bits that no case handles.
C9_ThrowsOnlyOnStructuralViolations ==
  last.op = "translate" => last.err \in {"none", "reference loop", "unknown type flags"}

\* C10: once a signature declaring type parameter P has been translated, P
\* stays mapped to `?` in the alias scope, and every later translation of a
\* type-parameter type with symbol P, by any instance of the file, is `?`.
C10_TypeParametersStayBlacklisted ==
  /\ \A P \in blacklistedTypeParameters :
       P \in DOMAIN symbolsToAliasedNames /\ symbolsToAliasedNames[P] = STR_Q
  /\ \A i \in 1..Len(last.log) :
       (/\ Types[last.log[i].type].flags \cap PublicTypeFlags = {"TypeParameter"}
        /\ Types[last.log[i].type].symbol \in
             last.blacklistedBefore \cup TypeParametersOf(last.log[i].sigs)) =>
         last.log[i].out = STR_Q /\ last.log[i].err = "none"

\* C10 happens: a new instance translates the type parameter T after an
\* earlier instance translated the generic signature declaring it.
C10_Witness ==
  /\ last.op = "translate" /\ last.arg = "tT" /\ calls = 1
  /\ last.seenBefore = {}
  /\ "sT" \in last.blacklistedBefore
  /\ last.out = STR_Q

\* C11: blacklistTypeParameters(scope, decls) is idempotent.  After a call every
\* symbol of a declaration in decls maps to `?` and every other entry of the
\* scope is as before; a call made when the symbols of decls already map to `?`
\* changes nothing, and so does applying it again to the scope it produced.
C11_BlacklistIdempotent ==
  last.op = "blacklistTypeParameters" =>
    LET decls == last.arg.decls
        syms == IF last.arg.hasDecls THEN {decls[i] : i \in 1..Len(decls)} \ {NoSymbol} ELSE {}
    IN /\ symbolsToAliasedNames =
            [s \in DOMAIN last.aliasBefore \cup syms |->
               IF s \in syms THEN <<"?">> ELSE last.aliasBefore[s]]
       /\ (\A s \in syms : s \in DOMAIN last.aliasBefore /\ last.aliasBefore[s] = <<"?">>) =>
            symbolsToAliasedNames = last.aliasBefore
       /\ blacklistTypeParameters(symbolsToAliasedNames, last.arg.hasDecls, decls)
            = symbolsToAliasedNames
       /\ last.err = "none"

\* C11 happens: blacklistTypeParameters is called a second time with the
\* declarations of U and T on a scope the first call already changed, and the
\* scope stays as the first call left it.
C11_Witness ==
  /\ last.op = "blacklistTypeParameters" /\ calls = 2
  /\ last.arg.decls = <<"sU", "sT">>
  /\ "sU" \in DOMAIN last.aliasBefore /\ last.aliasBefore["sU"] = <<"?">>
  /\ "sT" \in DOMAIN last.aliasBefore /\ last.aliasBefore["sT"] = <<"?">>
  /\ "sImp" \notin DOMAIN last.aliasBefore
  /\ symbolsToAliasedNames = last.aliasBefore

\* C12: in every name symbolToString produces, a mangled prefix stands at most
\* once, in front of the leftmost identifier of the dotted path only: a name
\* with no aliased segment is the prefix of the leftmost identifier's symbol
\* followed by the identifiers joined by `.`, none of the later ones prefixed;
\* a name taken from an alias carries no prefix, neither in front of the alias
\* nor in front of the identifiers that follow it.
C12_PrefixOnLeftmostOnly ==
  (last.op = "symbolToString" /\ last.defined) =>
    LET name == Symbols[last.arg].entityName
        Sym(j) == IF "Alias" \in Symbols[name[j].symbol].flags
                  THEN Symbols[name[j].symbol].aliasedSymbol ELSE name[j].symbol
        Aliased == {j \in 1..Len(name) :
                      /\ Sym(j) \in DOMAIN symbolsToAliasedNames
                      /\ symbolsToAliasedNames[Sym(j)] # <<>>}
        from == IF Aliased = {} THEN 1 ELSE CHOOSE j \in Aliased : \A i \in Aliased : i <= j
        dotted[j \in from..Len(name)] ==
          IF j = from
          THEN (IF Aliased = {} THEN name[j].text ELSE symbolsToAliasedNames[Sym(j)])
          ELSE dotted[j - 1] \o <<".">> \o name[j].text
        prefix == IF Aliased = {}
                  THEN maybeGetMangledNamePrefix(Sym(1), StateOf("forwardDeclare"))
                  ELSE <<>>
        written == prefix \o dotted[Len(name)]
        n == Len(STR_clutz)
    IN last.out = IF Len(written) >= n /\ \A i \in 1..n : written[i] = STR_clutz[i]
                  THEN [i \in 1..(Len(written) - n) |-> written[i + n]]
                  ELSE written

\* C12 happens: the class D of namespace n of the ambient module 'amb', every
\* segment of whose name has a mangled prefix of its own, is named with no
\* alias in scope, and the prefix stands once, in front of n.
C12_Witness ==
  /\ last.op = "symbolToString" /\ last.arg = "sMd" /\ ~isForExterns
  /\ symbolsToAliasedNames = EmptyScope
  /\ maybeGetMangledNamePrefix("sMd", StateOf("forwardDeclare")) = <<"a", "m", "b", ".">>
  /\ last.out = <<"a", "m", "b", ".", "n", ".", "D">>

\* C13: a translate call, at any depth, on a type whose kind bits within the
\* public mask are a single variant of the dispatch table, and that is not cut
\* by an early exit, returns the table's string for the variant; a type whose
\* kind bits are exactly non-primitive gives `!Object`.
C13_DispatchTable ==
  LET Public == {"Any", "Unknown", "String", "Number", "Boolean", "Enum", "BigInt",
                 "StringLiteral", "NumberLiteral", "BooleanLiteral", "EnumLiteral",
                 "BigIntLiteral", "ESSymbol", "UniqueESSymbol", "Void", "Undefined", "Null",
                 "Never", "TypeParameter", "Object", "Union", "Intersection", "Index",
                 "IndexedAccess", "Conditional", "Substitution"}
      Table == [Any |-> <<"?">>, Unknown |-> <<"*">>,
                String |-> <<"s", "t", "r", "i", "n", "g">>,
                StringLiteral |-> <<"s", "t", "r", "i", "n", "g">>,
                Number |-> <<"n", "u", "m", "b", "e", "r">>,
                NumberLiteral |-> <<"n", "u", "m", "b", "e", "r">>,
                Boolean |-> <<"b", "o", "o", "l", "e", "a", "n">>,
                BooleanLiteral |-> <<"b", "o", "o", "l", "e", "a", "n">>,
                ESSymbol |-> <<"s", "y", "m", "b", "o", "l">>,
                UniqueESSymbol |-> <<"s", "y", "m", "b", "o", "l">>,
                Void |-> <<"v", "o", "i", "d">>,
                Undefined |-> <<"u", "n", "d", "e", "f", "i", "n", "e", "d">>,
                BigInt |-> <<"b", "i", "g", "i", "n", "t", "P", "l", "a", "c", "e", "h", "o", "l", "d", "e", "r">>,
                Null |-> <<"n", "u", "l", "l">>,
                Never |-> <<"?">>, Conditional |-> <<"?">>, Substitution |-> <<"?">>,
                Intersection |-> <<"?">>, Index |-> <<"?">>, IndexedAccess |-> <<"?">>]
      PassesEarlyExits(e) ==
        /\ ~e.seen
        /\ ~NamespaceCut(DeclarationFacts(e.type, StateOf("forwardDeclare")))
        /\ ~ExternsCut(isForExterns, DeclarationFacts(e.type, StateOf("forwardDeclare")))
  IN \A i \in 1..Len(last.log) :
       LET e == last.log[i]
           flags == Types[e.type].flags
       IN IF flags = {"NonPrimitive"}
          THEN e.out = <<"!", "O", "b", "j", "e", "c", "t">> /\ e.err = "none"
          ELSE \A kind \in DOMAIN Table :
                 (flags \cap Public = {kind} /\ PassesEarlyExits(e)) =>
                   e.out = Table[kind] /\ e.err = "none"

\* C13 happens: the widening undefined type, which carries a flag outside the
\* public mask next to Undefined, is translated to `undefined`.
C13_Witness ==
  /\ last.op = "translate" /\ last.arg = "tUndefinedWidening"
  /\ Types[last.arg].flags = {"Undefined", "ContainsWideningType"}
  /\ Len(last.log) = 1 /\ ~last.log[1].seen
  /\ last.out = <<"u", "n", "d", "e", "f", "i", "n", "e", "d">>

\* C15: seenAnonymousTypes of an instance never shrinks.  A call leaves in it
\* every type it held before and every type translateAnonymousType was entered
\* with, and every translate call on such a type that is made later on the
\* instance returns `?`: a second call by the host, and a later occurrence of
\* the type within the same call, recursive or not.
C15_RecursionSetNeverShrinks ==
  /\ last.seenBefore \cup last.anon \subseteq seenAnonymousTypes
  /\ \A i \in 1..Len(last.log) :
       last.log[i].type \in last.seenBefore \cup last.log[i].anon =>
         last.log[i].out = <<"?">> /\ last.log[i].err = "none"

\* C15 happens: a union of {a, b} and of a type literal with two fields of type
\* {a, b} is translated; {a, b} is written out once, as the first member, and
\* both fields, which are not inside it, give `?`.
C15_Witness ==
  /\ last.op = "translate" /\ last.arg = "tObjUnion" /\ last.seenBefore = {}
  /\ Cardinality({i \in 1..Len(last.log) : last.log[i].type = "tObjAB"}) = 3
  /\ last.out = <<"(", "{", "a", ":", " ", "n", "u", "m", "b", "e", "r", ",", " ", "b", ":", " ",
                  "s", "t", "r", "i", "n", "g", "}", "|", "{", "x", ":", " ", "?", ",", " ",
                  "y", ":", " ", "?", "}", ")">>
  /\ seenAnonymousTypes = {"tObjAB", "tPair"}

\* C14 as the specification states it: when the walk from left to right comes
\* to a segment whose symbol has an alias, symbolToString returns exactly that
\* alias (as C4 settles it, without a leading clutz namespace); the walk stops
\* there and no later segment is appended.
C14_AliasEndsWalk ==
  (last.op = "symbolToString" /\ Symbols[last.arg].hasEntityName) =>
    LET name == Symbols[last.arg].entityName
        Sym(j) == IF "Alias" \in Symbols[name[j].symbol].flags
                  THEN Symbols[name[j].symbol].aliasedSymbol ELSE name[j].symbol
        Aliased == {j \in 1..Len(name) :
                      /\ Sym(j) \in DOMAIN symbolsToAliasedNames
                      /\ symbolsToAliasedNames[Sym(j)] # <<>>}
        firstAliased == CHOOSE j \in Aliased : \A i \in Aliased : j <= i
    IN Aliased # {} =>
         /\ last.defined
         /\ last.out = stripClutzNamespace(symbolsToAliasedNames[Sym(firstAliased)])

\* C14, amended: when a segment of the entity name has a non-empty alias, the
\* text written for the segments before it is discarded and replaced by the
\* alias; the walk goes on, and every later segment is appended after a `.`,
\* unless it has an alias too, which replaces the text again.  The name is the
\* alias of the last aliased segment followed by the later segments, without
\* a leading clutz namespace.
C14_AliasReplacesEarlierText ==
  (last.op = "symbolToString" /\ Symbols[last.arg].hasEntityName) =>
    LET name == Symbols[last.arg].entityName
        Sym(j) == IF "Alias" \in Symbols[name[j].symbol].flags
                  THEN Symbols[name[j].symbol].aliasedSymbol ELSE name[j].symbol
        Aliased == {j \in 1..Len(name) :
                      /\ Sym(j) \in DOMAIN symbolsToAliasedNames
                      /\ symbolsToAliasedNames[Sym(j)] # <<>>}
        lastAliased == CHOOSE j \in Aliased : \A i \in Aliased : i <= j
        after[j \in lastAliased..Len(name)] ==
          IF j = lastAliased THEN symbolsToAliasedNames[Sym(j)]
          ELSE after[j - 1] \o <<".">> \o name[j].text
    IN Aliased # {} =>
         /\ last.defined
         /\ last.out = stripClutzNamespace(after[Len(name)])

\* C14 happens: the class dns.Dn is named while the namespace dns has the alias
\* t1.dns and Dn has none; the name is the alias followed by `.Dn`.
C14_Witness ==
  /\ last.op = "symbolToString" /\ last.arg = "sDn"
  /\ "sDns" \in DOMAIN symbolsToAliasedNames /\ "sDn" \notin DOMAIN symbolsToAliasedNames
  /\ last.out = symbolsToAliasedNames["sDns"] \o <<".", "D", "n">>

\* C16: when maybeGetMangledNamePrefix produces a prefix, the file name handed
\* to the name mangler is the string-literal name of the enclosing ambient
\* module declaration whenever a declaration of the symbol has such an
\* ancestor, and the file name of the source file of the first declaration
\* only when none has; the prefix is the mangled name followed by `.`.
C16_AmbientModuleNameIsMangled ==
  (last.op = "maybeGetMangledNamePrefix" /\ last.out # <<>>) =>
    LET declarations == Symbols[last.arg].declarations
        Enclosing(i) == {j \in 1..Len(declarations[i].parents) :
                           /\ declarations[i].parents[j].kind = "ModuleDeclaration"
                           /\ declarations[i].parents[j].nameIsStringLiteral}
        having == {i \in 1..Len(declarations) : Enclosing(i) # {}}
        first == CHOOSE i \in having : \A k \in having : i <= k
        nearest == CHOOSE j \in Enclosing(first) : \A k \in Enclosing(first) : j <= k
        fileName == IF having # {} THEN declarations[first].parents[nearest].nameText
                    ELSE SourceFiles[declarations[1].file].fileName
    IN last.out = moduleNameAsIdentifier(fileName) \o <<".">>

\* C17: maybeGetMangledNamePrefix returns a non-empty prefix if and only if
\* some declaration of the symbol is a top-level declaration of an external
\* module file or has an ambient module declaration among its ancestors, and
\* externs mode is on or every declaration is in the file of the reference
\* node, ambient and exported; a symbol without declarations gets none.
C17_PrefixIffExternalAndLocalOrExterns ==
  last.op = "maybeGetMangledNamePrefix" =>
    LET S == Symbols[last.arg]
        D == S.declarations
        TopLevelInModule(d) ==
          /\ Len(d.parents) > 0 /\ d.parents[1].kind = "SourceFile"
          /\ SourceFiles[d.file].isExternalModule
        InAmbientModuleDeclaration(d) ==
          \E j \in 1..Len(d.parents) :
            d.parents[j].kind = "ModuleDeclaration" /\ d.parents[j].nameIsStringLiteral
        Ambient(d) ==
          "Ambient" \in d.modifiers \/ \E j \in 1..Len(d.parents) : "Ambient" \in d.parents[j].modifiers
        external ==
          /\ S.hasDeclarations
          /\ \E i \in 1..Len(D) : TopLevelInModule(D[i]) \/ InAmbientModuleDeclaration(D[i])
        local ==
          \A i \in 1..Len(D) : D[i].file = NodeFile /\ Ambient(D[i]) /\ "Export" \in D[i].modifiers
    IN /\ (last.out # <<>>) <=> (external /\ (isForExterns \/ local))
       /\ last.err = "none"
       /\ symbolsToAliasedNames = last.aliasBefore

\* C17 happens: outside externs mode the prefix of Amb, an exported ambient
\* class at the top level of the module being translated, is asked for and is
\* not empty.
C17_Witness ==
  /\ last.op = "maybeGetMangledNamePrefix" /\ ~isForExterns /\ last.arg = "sAmb"
  /\ Len(Symbols["sAmb"].declarations) = 1
  /\ Symbols["sAmb"].declarations[1].modifiers = {"Ambient", "Export"}
  /\ last.out = moduleNameAsIdentifier(SourceFiles["m"].fileName) \o <<".">>
\* C18: symbolToString(S) calls the ensure-declared callback exactly once,
\* with S, when externs mode is off and S is not a type parameter, and never
\* otherwise; no other symbol is declared.  The call comes before the alias
\* lookups: an alias for S that is in the scope after the call and was not
\* before it is the name the same call returns.
C18_DeclaresOnceBeforeLookup ==
  last.op = "symbolToString" =>
    LET S == last.arg
        invokes == ~isForExterns /\ "TypeParameter" \notin Symbols[S].flags
    IN /\ last.declared = (IF invokes THEN <<S>> ELSE <<>>)
       /\ ~invokes => symbolsToAliasedNames = last.aliasBefore
       /\ (S \notin DOMAIN last.aliasBefore /\ S \in DOMAIN symbolsToAliasedNames
            /\ Symbols[S].hasEntityName)
          => /\ last.defined
             /\ last.out = stripClutzNamespace(symbolsToAliasedNames[S])

\* C18 happens: with an empty scope, symbolToString of the class Imp that
\* another module exports declares Imp once and returns the alias the
\* callback registered for it during the call.
C18_Witness ==
  /\ last.op = "symbolToString" /\ last.arg = "sImp" /\ ~isForExterns
  /\ last.aliasBefore = EmptyScope
  /\ last.declared = <<"sImp">>
  /\ symbolsToAliasedNames = ("sImp" :> <<"t", "1", ".", "I", "m", "p">>)
  /\ last.out = <<"t", "1", ".", "I", "m", "p">>

\* C19: a type whose symbol has a declaration below a module declaration and
\* no ambient declaration translates to `?` wherever it occurs, in both modes
\* and without an error; when the host asks for it, the call translates
\* nothing else, names and declares no symbol, and leaves the alias scope and
\* the recursion set as they were.
C19_NonAmbientNamespaceIsUnknown ==
  LET cut(T) ==
        /\ Types[T].symbol # NoSymbol
        /\ LET decls == DeclarationsOf(Symbols[Types[T].symbol])
           IN /\ \E i \in 1..Len(decls) : \E j \in 1..Len(NodeChain(decls[i])) :
                    NodeChain(decls[i])[j].kind = "ModuleDeclaration"
              /\ \A i \in 1..Len(decls) :
                    /\ ~SourceFiles[decls[i].file].isDeclarationFile
                    /\ \A j \in 1..Len(NodeChain(decls[i])) :
                         "Ambient" \notin NodeChain(decls[i])[j].modifiers
  IN last.op = "translate" =>
       /\ \A k \in 1..Len(last.log) :
            cut(last.log[k].type) => last.log[k].out = STR_Q /\ last.log[k].err = "none"
       /\ cut(last.arg) =>
            /\ last.out = STR_Q /\ last.err = "none"
            /\ Len(last.log) = 1
            /\ last.declared = <<>> /\ last.named = <<>>
            /\ symbolsToAliasedNames = last.aliasBefore
            /\ seenAnonymousTypes = last.seenBefore

\* C19 happens: outside externs mode the class Inner, declared in the
\* namespace ns of the module being translated, is translated to `?`.
C19_Witness ==
  /\ last.op = "translate" /\ last.arg = "tInner" /\ ~isForExterns
  /\ Symbols[Types["tInner"].symbol].declarations[1].parents[2].kind = "ModuleDeclaration"
  /\ ~isAmbientDeclaration(Symbols[Types["tInner"].symbol].declarations[1])
  /\ last.out = STR_Q

\* C20: a reference type T that is neither class nor interface, with target
\* R, translates to `!Array<?>` when R is a tuple; to `?`, with no type
\* argument translated, when R translates to `?`; and otherwise to the
\* translation of R followed by `<`, the translations of T's type arguments
\* in order separated by `, `, and `>`.
C20_ReferenceIsTargetWithArguments ==
  LET IsRef(T) ==
        /\ "Object" \in Types[T].flags
        /\ "Reference" \in Types[T].objectFlags
        /\ Types[T].objectFlags \cap {"Class", "Interface"} = {}
      IsTuple(T) == "Tuple" \in Types[Types[T].target].objectFlags
      Args(outs) ==
        LET commas[k \in 0..Len(outs)] ==
              IF k = 0 THEN <<>>
              ELSE IF k = 1 THEN outs[1]
              ELSE commas[k - 1] \o <<",", " ">> \o outs[k]
        IN <<"<">> \o commas[Len(outs)] \o <<">">>
      Members(i) ==
        LET e == last.log[i]
            idx == {j \in 1..(i - 1) :
                      /\ last.log[j].depth = e.depth + 1
                      /\ \A k \in (j + 1)..(i - 1) : last.log[k].depth > e.depth}
        IN [n \in 1..Cardinality(idx) |->
              last.log[CHOOSE j \in idx : Cardinality({m \in idx : m <= j}) = n]]
      Before ==
        [StateOf("forwardDeclare") EXCEPT !.seen = last.seenBefore,
                                          !.alias = last.aliasBefore]
  IN /\ (last.op = "translate" /\ last.err = "none" /\ IsRef(last.arg)) =>
          LET T == Types[last.arg]
              R == translate(T.target, Before)
          IN IF IsTuple(last.arg) THEN last.out = <<"!", "A", "r", "r", "a", "y", "<", "?", ">">>
             ELSE IF R.out = <<"?">>
             THEN /\ last.out = <<"?">>
                  /\ \A k \in 1..(Len(last.log) - 1) :
                       last.log[k].depth = 1 => last.log[k].type = T.target
             ELSE T.hasTypeArguments =>
                    last.out = R.out \o Args(translateAll(T.typeArguments,
                                                          Len(T.typeArguments), R.st).outs)
     /\ \A i \in 1..Len(last.log) :
          (IsRef(last.log[i].type) /\ last.log[i].err = "none") =>
            LET T == Types[last.log[i].type]
                M == Members(i)
            IN IF IsTuple(last.log[i].type)
               THEN last.log[i].out = <<"!", "A", "r", "r", "a", "y", "<", "?", ">">> /\ Len(M) = 0
               ELSE IF Len(M) = 0 \/ M[1].out = <<"?">>
               THEN /\ last.log[i].out = <<"?">>
                    /\ Len(M) <= 1
                    /\ Len(M) = 1 => M[1].type = T.target
               ELSE T.hasTypeArguments =>
                      /\ [n \in 1..Len(M) |-> M[n].type] = <<T.target>> \o T.typeArguments
                      /\ last.log[i].out =
                           M[1].out \o Args([n \in 1..(Len(M) - 1) |-> M[n + 1].out])

\* C20 happens: Map<{a: number, b: string}, {a: number, b: string}> is
\* translated; its target gives !Map, and the two type arguments follow,
\* separated by a comma and a space.
C20_Witness ==
  /\ last.op = "translate" /\ last.arg = "tMapRef" /\ last.err = "none"
  /\ Types["tMapRef"].target = "tMap" /\ Len(Types["tMapRef"].typeArguments) = 2
  /\ last.out = <<"!", "M", "a", "p", "<", "{", "a", ":", " ", "n", "u", "m", "b", "e", "r", ",", " ", "b", ":", " ", "s", "t", "r", "i", "n", "g", "}", ",", " ", "?", ">">>

\* C21 as claimed: the translation of an anonymous object type without
\* construct signatures follows from its members alone: no expressible field
\* and callable only gives the one call signature's function type (else `?`),
\* indexable only gives `!Object<string,V>`, `!Object<number,V>` or
\* `!Object<?,?>`, neither gives `*`; expressible fields and neither callable
\* nor indexable gives `{name: type, ...}` in member order; every other
\* combination gives `?`.  A symbol without a members table counts as having
\* no members.
C21_ResultFromMembers ==
  LET Valid(name) ==
        /\ Len(name) >= 1
        /\ name[1] \in Letters \cup {"_"}
        /\ \A c \in 2..Len(name) : name[c] \in Letters \cup Digits \cup {"_"}
      Members(i) ==
        LET e == last.log[i]
            idx == {j \in 1..(i - 1) :
                      /\ last.log[j].depth = e.depth + 1
                      /\ \A k \in (j + 1)..(i - 1) : last.log[k].depth > e.depth}
        IN [n \in 1..Cardinality(idx) |->
              last.log[CHOOSE j \in idx : Cardinality({m \in idx : m <= j}) = n]]
      Dispatched(i) ==
        LET e == last.log[i]
            T == Types[e.type]
            facts == DeclarationFacts(e.type, StateOf("forwardDeclare"))
        IN /\ T.flags = {"Object"} /\ T.objectFlags = {"Anonymous"}
           /\ T.symbol # NoSymbol
           /\ Symbols[T.symbol].flags \cap {"Function", "Method"} = {}
           /\ Len(T.constructSignatures) = 0
           /\ ~e.seen /\ e.err = "none"
           /\ ~NamespaceCut(facts) /\ ~ExternsCut(isForExterns, facts)
           /\ ~isBlacklisted(pathBlackList, Symbols[T.symbol])
      Entered ==
        [StateOf("forwardDeclare") EXCEPT !.seen = last.seenBefore \cup {last.arg},
                                          !.alias = last.aliasBefore]
      Listed(fields) ==
        LET commas[k \in 0..Len(fields)] ==
              IF k = 0 THEN <<>>
              ELSE IF k = 1 THEN fields[1]
              ELSE commas[k - 1] \o <<",", " ">> \o fields[k]
        IN <<"{">> \o commas[Len(fields)] \o <<"}">>
  IN last.op = "translate" =>
       \A i \in 1..Len(last.log) : Dispatched(i) =>
         LET e == last.log[i]
             T == Types[e.type]
             M == Members(i)
             members == Symbols[T.symbol].members
             callable == \E n \in 1..Len(members) : members[n].name = <<"_", "_", "c", "a", "l", "l">>
             indexable == \E n \in 1..Len(members) : members[n].name = <<"_", "_", "i", "n", "d", "e", "x">>
             named == {n \in 1..Len(members) :
                         /\ members[n].name \notin {<<"_", "_", "c", "a", "l", "l">>,
                                                    <<"_", "_", "i", "n", "d", "e", "x">>}
                         /\ Valid(members[n].name)}
             k == Cardinality(named)
             nth(j) == CHOOSE n \in named : Cardinality({m \in named : m <= n}) = j
             ByMembers ==
             /\ Len(M) >= k
             /\ \A j \in 1..k : M[j].type = members[nth(j)].type
             /\ IF k = 0 /\ callable /\ ~indexable
                THEN IF Len(T.callSignatures) = 1
                     THEN i = Len(last.log) =>
                            e.out = signatureToClosure(T.callSignatures[1], Entered).out
                     ELSE e.out = <<"?">> /\ Len(M) = 0
                ELSE IF k = 0 /\ indexable /\ ~callable
                THEN IF T.stringIndexType # NoType
                     THEN /\ Len(M) = 1 /\ M[1].type = T.stringIndexType
                          /\ e.out = <<"!", "O", "b", "j", "e", "c", "t", "<", "s", "t", "r", "i", "n", "g", ",">>
                                       \o M[1].out \o <<">">>
                     ELSE IF T.numberIndexType # NoType
                     THEN /\ Len(M) = 1 /\ M[1].type = T.numberIndexType
                          /\ e.out = <<"!", "O", "b", "j", "e", "c", "t", "<", "n", "u", "m", "b", "e", "r", ",">>
                                       \o M[1].out \o <<">">>
                     ELSE /\ Len(M) = 0
                          /\ e.out = <<"!", "O", "b", "j", "e", "c", "t", "<", "?", ",", "?", ">">>
                ELSE IF k = 0 /\ ~callable /\ ~indexable
                THEN e.out = <<"*">> /\ Len(M) = 0
                ELSE IF ~callable /\ ~indexable
                THEN /\ Len(M) = k
                     /\ e.out = Listed([j \in 1..k |->
                                          members[nth(j)].name \o <<":", " ">> \o M[j].out])
                ELSE e.out = <<"?">> /\ Len(M) = k
         IN ByMembers

\* C21: an anonymous object type without construct signatures whose symbol
\* has no members table translates to `?`; with a members table the result
\* follows from the members as C21_ResultFromMembers says, the members whose
\* names are not identifiers being skipped.
C21_ResultFromMembersTable ==
  LET Valid(name) ==
        /\ Len(name) >= 1
        /\ name[1] \in Letters \cup {"_"}
        /\ \A c \in 2..Len(name) : name[c] \in Letters \cup Digits \cup {"_"}
      Members(i) ==
        LET e == last.log[i]
            idx == {j \in 1..(i - 1) :
                      /\ last.log[j].depth = e.depth + 1
                      /\ \A k \in (j + 1)..(i - 1) : last.log[k].depth > e.depth}
        IN [n \in 1..Cardinality(idx) |->
              last.log[CHOOSE j \in idx : Cardinality({m \in idx : m <= j}) = n]]
      Dispatched(i) ==
        LET e == last.log[i]
            T == Types[e.type]
            facts == DeclarationFacts(e.type, StateOf("forwardDeclare"))
        IN /\ T.flags = {"Object"} /\ T.objectFlags = {"Anonymous"}
           /\ T.symbol # NoSymbol
           /\ Symbols[T.symbol].flags \cap {"Function", "Method"} = {}
           /\ Len(T.constructSignatures) = 0
           /\ ~e.seen /\ e.err = "none"
           /\ ~NamespaceCut(facts) /\ ~ExternsCut(isForExterns, facts)
           /\ ~isBlacklisted(pathBlackList, Symbols[T.symbol])
      Entered ==
        [StateOf("forwardDeclare") EXCEPT !.seen = last.seenBefore \cup {last.arg},
                                          !.alias = last.aliasBefore]
      Listed(fields) ==
        LET commas[k \in 0..Len(fields)] ==
              IF k = 0 THEN <<>>
              ELSE IF k = 1 THEN fields[1]
              ELSE commas[k - 1] \o <<",", " ">> \o fields[k]
        IN <<"{">> \o commas[Len(fields)] \o <<"}">>
  IN last.op = "translate" =>
       \A i \in 1..Len(last.log) : Dispatched(i) =>
         LET e == last.log[i]
             T == Types[e.type]
             M == Members(i)
             members == Symbols[T.symbol].members
             callable == \E n \in 1..Len(members) : members[n].name = <<"_", "_", "c", "a", "l", "l">>
             indexable == \E n \in 1..Len(members) : members[n].name = <<"_", "_", "i", "n", "d", "e", "x">>
             named == {n \in 1..Len(members) :
                         /\ members[n].name \notin {<<"_", "_", "c", "a", "l", "l">>,
                                                    <<"_", "_", "i", "n", "d", "e", "x">>}
                         /\ Valid(members[n].name)}
             k == Cardinality(named)
             nth(j) == CHOOSE n \in named : Cardinality({m \in named : m <= n}) = j
             ByMembers ==
             /\ Len(M) >= k
             /\ \A j \in 1..k : M[j].type = members[nth(j)].type
             /\ IF k = 0 /\ callable /\ ~indexable
                THEN IF Len(T.callSignatures) = 1
                     THEN i = Len(last.log) =>
                            e.out = signatureToClosure(T.callSignatures[1], Entered).out
                     ELSE e.out = <<"?">> /\ Len(M) = 0
                ELSE IF k = 0 /\ indexable /\ ~callable
                THEN IF T.stringIndexType # NoType
                     THEN /\ Len(M) = 1 /\ M[1].type = T.stringIndexType
                          /\ e.out = <<"!", "O", "b", "j", "e", "c", "t", "<", "s", "t", "r", "i", "n", "g", ",">>
                                       \o M[1].out \o <<">">>
                     ELSE IF T.numberIndexType # NoType
                     THEN /\ Len(M) = 1 /\ M[1].type = T.numberIndexType
                          /\ e.out = <<"!", "O", "b", "j", "e", "c", "t", "<", "n", "u", "m", "b", "e", "r", ",">>
                                       \o M[1].out \o <<">">>
                     ELSE /\ Len(M) = 0
                          /\ e.out = <<"!", "O", "b", "j", "e", "c", "t", "<", "?", ",", "?", ">">>
                ELSE IF k = 0 /\ ~callable /\ ~indexable
                THEN e.out = <<"*">> /\ Len(M) = 0
                ELSE IF ~callable /\ ~indexable
                THEN /\ Len(M) = k
                     /\ e.out = Listed([j \in 1..k |->
                                          members[nth(j)].name \o <<":", " ">> \o M[j].out])
                ELSE e.out = <<"?">> /\ Len(M) = k
         IN IF ~Symbols[T.symbol].hasMembers THEN e.out = <<"?">> /\ Len(M) = 0
            ELSE ByMembers

\* C21 happens: {'a b': number, c1: string} is translated; the quoted member
\* is skipped and the result is {c1: string}.
C21_Witness ==
  /\ last.op = "translate" /\ last.arg = "tQuoted" /\ last.err = "none"
  /\ "tQuoted" \notin last.seenBefore
  /\ Len(Symbols["sQuoted"].members) = 2
  /\ last.out = <<"{", "c", "1", ":", " ", "s", "t", "r", "i", "n", "g", "}">>

\* C22: an anonymous object type with construct signatures is translated from
\* the first of them alone: without a declaration, or with a JSDoc one, the
\* result is `?` and nothing is translated or blacklisted; otherwise the
\* signature's type parameters are `?` in the alias scope and the result is
\* `function(new: (R)`, then `, p` for every converted parameter in order,
\* then `): ?`, R being the translation of the return type.
C22_FirstConstructorOnly ==
  LET Members(i) ==
        LET e == last.log[i]
            idx == {j \in 1..(i - 1) :
                      /\ last.log[j].depth = e.depth + 1
                      /\ \A k \in (j + 1)..(i - 1) : last.log[k].depth > e.depth}
        IN [n \in 1..Cardinality(idx) |->
              last.log[CHOOSE j \in idx : Cardinality({m \in idx : m <= j}) = n]]
      Dispatched(i) ==
        LET e == last.log[i]
            T == Types[e.type]
            facts == DeclarationFacts(e.type, StateOf("forwardDeclare"))
        IN /\ T.flags = {"Object"} /\ T.objectFlags = {"Anonymous"}
           /\ T.symbol # NoSymbol
           /\ Symbols[T.symbol].flags \cap {"Function", "Method"} = {}
           /\ Symbols[T.symbol].hasMembers
           /\ Len(T.constructSignatures) > 0
           /\ ~e.seen /\ e.err = "none"
           /\ ~NamespaceCut(facts) /\ ~ExternsCut(isForExterns, facts)
           /\ ~isBlacklisted(pathBlackList, Symbols[T.symbol])
      Entered ==
        [StateOf("forwardDeclare") EXCEPT !.seen = last.seenBefore \cup {last.arg},
                                          !.alias = last.aliasBefore]
      Each(params) ==
        LET cat[k \in 0..Len(params)] ==
              IF k = 0 THEN <<>> ELSE cat[k - 1] \o <<",", " ">> \o params[k]
        IN cat[Len(params)]
      New == <<"f", "u", "n", "c", "t", "i", "o", "n", "(", "n", "e", "w", ":", " ", "(">>
      End == <<")", ":", " ", "?">>
  IN last.op = "translate" =>
       \A i \in 1..Len(last.log) : Dispatched(i) =>
         LET e == last.log[i]
             T == Types[e.type]
             M == Members(i)
             sig == T.constructSignatures[1]
             ctor == Signatures[sig]
         IN IF ctor.declaration # "real"
            THEN /\ e.out = <<"?">> /\ Len(M) = 0
                 /\ i = Len(last.log) => symbolsToAliasedNames = last.aliasBefore
            ELSE /\ \A n \in 1..Len(ctor.typeParameters) :
                      ctor.typeParameters[n] # NoSymbol =>
                        /\ ctor.typeParameters[n] \in DOMAIN symbolsToAliasedNames
                        /\ symbolsToAliasedNames[ctor.typeParameters[n]] = <<"?">>
                 /\ Len(M) >= 1 /\ M[Len(M)].type = ctor.returnType
                 /\ Len(e.out) >= Len(New) + Len(M[Len(M)].out) + 1 + Len(End)
                 /\ SubSeq(e.out, 1, Len(New) + Len(M[Len(M)].out) + 1)
                      = New \o M[Len(M)].out \o <<")">>
                 /\ SubSeq(e.out, Len(e.out) - Len(End) + 1, Len(e.out)) = End
                 /\ i = Len(last.log) =>
                      LET params == convertParams(sig, ctor.paramDecls, 1,
                                      [outs |-> <<>>,
                                       st |-> [Entered EXCEPT !.alias =
                                                 blacklistTypeParameters(@, ctor.hasTypeParameters,
                                                                         ctor.typeParameters)]])
                          R == translate(ctor.returnType, params.st)
                      IN e.out = New \o R.out \o <<")">> \o Each(params.outs) \o End

\* C22 happens: a type with the construct signatures new () => Foo and
\* new (x, ...r) => Foo, a call signature, an index signature and a field is
\* translated from the first construct signature alone.
C22_Witness ==
  /\ last.op = "translate" /\ last.arg = "tCtorRich" /\ last.err = "none"
  /\ Types["tCtorRich"].constructSignatures = <<"sigCtor0", "sigCtor2">>
  /\ Len(Types["tCtorRich"].callSignatures) = 1
  /\ Len(Symbols["sCtorRich"].members) = 4
  /\ last.out = <<"f", "u", "n", "c", "t", "i", "o", "n", "(", "n", "e", "w", ":", " ", "(", "!", "F", "o", "o", ")", ")", ":", " ", "?">>

\* C23: an enum literal type translates to `!` and the name of its enum, never
\* of the member: the name of the base type's symbol, or of that symbol's
\* parent when the base type is the literal type itself; to `?` when the base
\* type has no symbol, when that parent is missing, or when the symbol has no
\* name.  A union of literals of one enum translates to the single `!E`.
C23_EnumLiteralIsItsEnum ==
  LET Members(i) ==
        LET e == last.log[i]
            idx == {j \in 1..(i - 1) :
                      /\ last.log[j].depth = e.depth + 1
                      /\ \A k \in (j + 1)..(i - 1) : last.log[k].depth > e.depth}
        IN [n \in 1..Cardinality(idx) |->
              last.log[CHOOSE j \in idx : Cardinality({m \in idx : m <= j}) = n]]
      IsLiteral(t) == Types[t].flags \cap {"EnumLiteral", "Union"} = {"EnumLiteral"}
      Uncut(t) ==
        LET facts == DeclarationFacts(t, StateOf("forwardDeclare"))
        IN ~NamespaceCut(facts) /\ ~ExternsCut(isForExterns, facts)
      Enum(t) ==
        LET base == Types[t].baseTypeOfLiteral
        IN IF Types[base].symbol = NoSymbol THEN NoSymbol
           ELSE IF base = t THEN Symbols[Types[base].symbol].parent
           ELSE Types[base].symbol
      \* the name symbolToString gives the enum in the scope the call met
      NameOf(sym) == symbolToString(sym, [StateOf("forwardDeclare") EXCEPT
                                            !.seen = last.seenBefore,
                                            !.alias = last.aliasBefore])
  IN last.op = "translate" =>
       \A i \in 1..Len(last.log) :
         LET e == last.log[i]
         IN /\ (IsLiteral(e.type) /\ Uncut(e.type) /\ e.err = "none") =>
                 /\ Len(Members(i)) = 0
                 /\ IF Enum(e.type) = NoSymbol THEN e.out = <<"?">>
                    ELSE IF ~NameOf(Enum(e.type)).defined \/ NameOf(Enum(e.type)).str = <<>>
                    THEN e.out = <<"?">>
                    ELSE /\ e.out = <<"!">> \o NameOf(Enum(e.type)).str
                         /\ Symbols[Enum(e.type)].flags \cap {"RegularEnum", "ConstEnum"} # {}
                              => e.out # <<"!">> \o NameOf(Types[e.type].symbol).str
            /\ (/\ "Union" \in Types[e.type].flags /\ e.err = "none"
                /\ Len(Members(i)) > 0
                /\ \A n \in 1..Len(Members(i)) :
                     /\ IsLiteral(Members(i)[n].type)
                     /\ Enum(Members(i)[n].type) = Enum(Members(i)[1].type)
                     /\ Enum(Members(i)[n].type) # NoSymbol)
                 => e.out = Members(i)[1].out

\* C23 happens: the type of the only member C of enum S, whose base type is
\* the literal type itself, is translated to !S.
C23_Witness ==
  /\ last.op = "translate" /\ last.arg = "tSC" /\ last.err = "none"
  /\ Types["tSC"].baseTypeOfLiteral = "tSC"
  /\ Symbols[Types["tSC"].symbol].parent = "sS"
  /\ last.out = <<"!", "S">>

\* C24 as claimed: the translation of the type of a declared function, which
\* is signatureToClosure of its signature, for a signature without a `this`
\* parameter lists the parameters in index order, each with what parameter
\* conversion makes of it: the translated type, with `=` when optional; for
\* a rest parameter `...` and the translation of the first type argument of
\* its reference type (with `=` when optional), `!Array<?>` without modifier
\* when its type is not an object reference, and nothing at all when its
\* reference type has no type arguments.  The conversion completes: it does
\* not raise a TypeError.
C24_ParametersInOrder ==
  (/\ last.op = "translate" /\ last.arg \in FunctionTypeIds
   /\ Signatures[Types[last.arg].callSignatures[1]].declaration = "real"
   /\ (Len(Signatures[Types[last.arg].callSignatures[1]].paramDecls) > 0
        => Signatures[Types[last.arg].callSignatures[1]].paramDecls[1].name # <<"t", "h", "i", "s">>)
   /\ Len(Signatures[Types[last.arg].callSignatures[1]].paramDecls) >= Len(Signatures[Types[last.arg].callSignatures[1]].parameters)) =>
    LET S == Signatures[Types[last.arg].callSignatures[1]]
        n == Len(S.parameters)
        top == {j \in 1..Len(last.log) : last.log[j].depth = 1}
        K == [c \in 1..Cardinality(top) |->
                last.log[CHOOSE j \in top : Cardinality({m \in top : m <= j}) = c]]
        P(i) == Types[S.parameters[i]]
        Kind(i) ==
          IF ~S.paramDecls[i].dotDotDotToken THEN "plain"
          ELSE IF "Object" \notin P(i).flags \/ "Reference" \notin P(i).objectFlags THEN "array"
          ELSE IF ~P(i).hasTypeArguments \/ Len(P(i).typeArguments) = 0 THEN "skip"
          ELSE "rest"
        Tr == {i \in 1..n : Kind(i) \in {"plain", "rest"}}
        ChildOf(i) == Cardinality({m \in Tr : m <= i})
        Opt(i) == IF S.paramDecls[i].questionToken THEN <<"=">> ELSE <<>>
        Entry(i) ==
          IF Kind(i) = "array" THEN <<"!", "A", "r", "r", "a", "y", "<", "?", ">">>
          ELSE IF Kind(i) = "rest" THEN <<".", ".", ".">> \o K[ChildOf(i)].out \o Opt(i)
          ELSE K[ChildOf(i)].out \o Opt(i)
        Shown == {i \in 1..n : Kind(i) # "skip"}
        listed[k \in 0..n] ==
          IF k = 0 THEN <<>>
          ELSE IF Kind(k) = "skip" THEN listed[k - 1]
          ELSE listed[k - 1] \o (IF Cardinality({m \in Shown : m < k}) > 0
                                  THEN <<",", " ">> ELSE <<>>) \o Entry(k)
    IN /\ last.err # "TypeError"
       /\ last.err = "none" =>
            /\ Len(K) = Cardinality(Tr) + 1
            /\ \A i \in Tr :
                 K[ChildOf(i)].type = (IF Kind(i) = "rest" THEN P(i).typeArguments[1]
                                       ELSE S.parameters[i])
            /\ K[Len(K)].type = S.returnType
            /\ last.out = <<"f", "u", "n", "c", "t", "i", "o", "n", "(">> \o listed[n] \o <<")", ":", " ">>
                             \o K[Len(K)].out

\* C25: the translation of the type of a declared function is what
\* signatureToClosure returns for its signature: `Function`, translating
\* nothing, for a signature without a declaration or with a JSDoc declaration.  Otherwise it
\* returns `function(`, the parameters, `): ` and the translated return type;
\* a first declared parameter named `this` is not one of the parameters: with
\* a type annotation it comes first as `this: (T)`, followed by `, ` when the
\* declaration has further parameters, and without one it leaves no trace.
C25_FunctionTypeOfSignature ==
  (last.op = "translate" /\ last.arg \in FunctionTypeIds) =>
    LET S == Signatures[Types[last.arg].callSignatures[1]]
        top == {j \in 1..Len(last.log) : last.log[j].depth = 1}
        K == [c \in 1..Cardinality(top) |->
                last.log[CHOOSE j \in top : Cardinality({m \in top : m <= j}) = c]]
        hasThis == Len(S.paramDecls) > 0 /\ S.paramDecls[1].name = <<"t", "h", "i", "s">>
        typed == hasThis /\ S.paramDecls[1].hasType
        Before == [StateOf("forwardDeclare") EXCEPT
                     !.seen = last.seenBefore,
                     !.alias = blacklistTypeParameters(last.aliasBefore, S.hasTypeParameters,
                                                       S.typeParameters)]
        this == IF typed THEN translate(S.paramDecls[1].type, Before) ELSE Returns(<<>>, Before)
        params == convertParams(Types[last.arg].callSignatures[1], IF hasThis THEN Tail(S.paramDecls) ELSE S.paramDecls, 1,
                                [outs |-> <<>>, st |-> this.st])
        ret == translate(S.returnType, params.st)
        Commas(list) ==
          LET commas[k \in 0..Len(list)] ==
                IF k = 0 THEN <<>>
                ELSE IF k = 1 THEN list[1]
                ELSE commas[k - 1] \o <<",", " ">> \o list[k]
          IN commas[Len(list)]
    IN IF S.declaration # "real"
       THEN /\ last.out = <<"F", "u", "n", "c", "t", "i", "o", "n">> /\ last.err = "none"
            /\ Len(last.log) = 1
       ELSE last.err = "none" =>
              /\ Len(K) <= (IF typed THEN 1 ELSE 0) + Len(S.parameters) + 1
              /\ typed => K[1].type = S.paramDecls[1].type
              /\ ~typed => (Len(S.parameters) > 0 \/ K[1].type = S.returnType)
              /\ K[Len(K)].type = S.returnType
              /\ last.out = <<"f", "u", "n", "c", "t", "i", "o", "n", "(">>
                     \o (IF typed
                         THEN <<"t", "h", "i", "s", ":", " ", "(">> \o K[1].out \o <<")">>
                              \o (IF Len(S.paramDecls) > 1 THEN <<",", " ">> ELSE <<>>)
                         ELSE <<>>)
                     \o Commas(params.outs) \o <<")", ":", " ">> \o ret.out

\* C25 happens: the function f(this: Foo, x: number): void gives
\* function(this: (!Foo), number): void.
C25_Witness ==
  /\ last.op = "translate" /\ last.arg = "tFnThis" /\ last.err = "none"
  /\ Signatures["sigThis"].paramDecls[1].name = <<"t", "h", "i", "s">>
  /\ Len(Signatures["sigThis"].parameters) = 1
  /\ last.out = <<"f", "u", "n", "c", "t", "i", "o", "n", "(", "t", "h", "i", "s", ":", " ", "(", "!", "F", "o", "o", ")", ",", " ", "n", "u", "m", "b", "e", "r", ")", ":", " ", "v", "o", "i", "d">>

\* C26 as claimed: no function type signatureToClosure returns for the
\* signature of a declared function has `, ` right before a closing parenthesis; when a typed `this` parameter is
\* followed only by parameters that parameter conversion skips, the result
\* is function(this: (T)): R.
C26_NoTrailingSeparator ==
  (last.op = "translate" /\ last.arg \in FunctionTypeIds /\ last.err = "none") =>
    /\ \A p \in 1..(Len(last.out) - 2) : SubSeq(last.out, p, p + 2) # <<",", " ", ")">>
    /\ (/\ Signatures[Types[last.arg].callSignatures[1]].declaration = "real"
        /\ Len(Signatures[Types[last.arg].callSignatures[1]].paramDecls) > 1
        /\ Signatures[Types[last.arg].callSignatures[1]].paramDecls[1].name = <<"t", "h", "i", "s">>
        /\ Signatures[Types[last.arg].callSignatures[1]].paramDecls[1].hasType
        /\ \A i \in 1..Len(Signatures[Types[last.arg].callSignatures[1]].parameters) :
             /\ Signatures[Types[last.arg].callSignatures[1]].paramDecls[i + 1].dotDotDotToken
             /\ Types[Signatures[Types[last.arg].callSignatures[1]].parameters[i]].flags = {"Object"}
             /\ "Reference" \in Types[Signatures[Types[last.arg].callSignatures[1]].parameters[i]].objectFlags
             /\ ~Types[Signatures[Types[last.arg].callSignatures[1]].parameters[i]].hasTypeArguments)
         => \E j \in 1..Len(last.log) : \E k \in 1..Len(last.log) :
              /\ last.log[j].depth = 1 /\ last.log[k].depth = 1
              /\ last.out = <<"f", "u", "n", "c", "t", "i", "o", "n", "(", "t", "h", "i", "s", ":", " ", "(">>
                              \o last.log[j].out \o <<")", ")", ":", " ">> \o last.log[k].out

\* C27 as claimed: no translation contains the empty type argument list `<>`;
\* a reference type whose list of type arguments is present and empty
\* translates to what its target translates to.
C27_NoEmptyArgumentList ==
  (last.op = "translate" /\ last.err = "none") =>
    /\ \A p \in 1..(Len(last.out) - 1) : SubSeq(last.out, p, p + 1) # <<"<", ">">>
    /\ \A i \in 1..Len(last.log) :
         LET e == last.log[i]
             T == Types[e.type]
         IN (/\ T.flags = {"Object"} /\ T.objectFlags = {"Reference"}
             /\ T.hasTypeArguments /\ Len(T.typeArguments) = 0
             /\ "Tuple" \notin Types[T.target].objectFlags
             /\ i > 1)
              => /\ last.log[i - 1].type = T.target
                 /\ last.log[i - 1].depth = e.depth + 1
                 /\ e.out = last.log[i - 1].out

\* C28: a translation changes the alias scope only by setting the symbols of
\* the type parameters that a translated call or construct signature with a
\* real declaration declares to `?` (and through what the ensure-declared
\* callback registers for a symbol handed to it): no entry is removed, no
\* other entry is written, and a translation of a function type whose only
\* signature has no real declaration, which gives `Function`, leaves the
\* scope as it was.
C28_ScopeOnlyGainsBlacklistedTypeParameters ==
  last.op \in {"translate", "symbolToString"} =>
    LET before == last.aliasBefore
        after == symbolsToAliasedNames
        changed == {s \in DOMAIN after : s \notin DOMAIN before \/ after[s] # before[s]}
        registered == {s \in DOMAIN after \ DOMAIN before :
                         /\ \E n \in 1..Len(last.declared) : last.declared[n] = s
                         /\ "TypeParameter" \notin Symbols[s].flags}
        declaredBy(sig) == {Signatures[sig].typeParameters[n] :
                              n \in 1..Len(Signatures[sig].typeParameters)} \ {NoSymbol}
        reachable == {sig \in SignatureIds : Signatures[sig].declaration = "real"}
        direct == IF last.op = "translate"
                  THEN {Types[last.arg].callSignatures[n] :
                          n \in 1..Len(Types[last.arg].callSignatures)}
                       \cup {Types[last.arg].constructSignatures[n] :
                               n \in 1..Len(Types[last.arg].constructSignatures)}
                  ELSE {}
    IN /\ DOMAIN before \subseteq DOMAIN after
       /\ \A s \in changed \ registered :
            /\ after[s] = <<"?">>
            /\ s \in blacklistedTypeParameters \ last.blacklistedBefore
            /\ \E sig \in reachable : s \in declaredBy(sig)
       /\ (/\ direct # {} /\ direct \cap reachable = {}
           /\ Len(last.log) <= 1) => after = before

\* C28 happens: with the imports in scope, the type of <T>(x: T) => T is
\* translated; afterwards T maps to `?` and every other entry is as before.
C28_Witness ==
  /\ last.op = "translate" /\ last.arg = "tGeneric" /\ last.err = "none"
  /\ Signatures["sigGeneric"].typeParameters = <<"sT">>
  /\ "sImp" \in DOMAIN last.aliasBefore /\ "sT" \notin DOMAIN last.aliasBefore
  /\ symbolsToAliasedNames = ("sT" :> <<"?">>) @@ last.aliasBefore

(***************************************************************************)
(* C29 as claimed: a symbol is blacklisted if and only if a path blacklist  *)
(* was supplied and every declaration of the symbol is in a file whose      *)
(* normalized path is in the blacklist.  With no path blacklist, or for a   *)
(* symbol without declarations (symbol.declarations undefined or empty),    *)
(* isBlackListed is false, and a symbol with a declaration outside the      *)
(* blacklist is not blacklisted.  The host's blacklist names /x/bl.ts as    *)
(* /x/./bl.ts; the files bl and blRel are that file (blRel under the name   *)
(* /x/y/../bl.ts).                                                          *)
(***************************************************************************)
C29_BlacklistedIffEveryDeclarationListed ==
  last.op = "isBlackListed" =>
    LET symbol == Symbols[last.arg]
        supplied == pathBlackList.defined
        declared == symbol.hasDeclarations /\ Len(symbol.declarations) > 0
        Listed(i) == symbol.declarations[i].file \in {"bl", "blRel"}
        ByDeclarations ==
          /\ last.bool <=> (/\ supplied
                            /\ declared
                            /\ \A i \in 1..Len(symbol.declarations) : Listed(i))
          /\ ~supplied => ~last.bool
          /\ ~declared => ~last.bool
          /\ (\E i \in 1..Len(symbol.declarations) : ~Listed(i)) => ~last.bool
          /\ last.err = "none"
    IN ByDeclarations

====
